---------------------------- MODULE Spec2Model ----------------------------
(***************************************************************************)
(* tinyglobby: pattern normalisation, root inference, matcher wiring and   *)
(* the crawl, as a state machine.                                          *)
(*                                                                         *)
(* A string is a sequence of one-character strings, so that the index and  *)
(* slice arithmetic of the source is modelled as written.  The empty       *)
(* sequence is the empty string.                                           *)
(***************************************************************************)
EXTENDS Integers, Sequences, FiniteSets, TLC

\* ------------------------------------------------------------------------
\* Bounds of the model
\* ------------------------------------------------------------------------
MaxPatterns == 2
MaxIgnore == 1
MaxDeep == 2
MaxFiles == 3

MaxChars == 4

MaxSegments == 3

\* ------------------------------------------------------------------------
\* JavaScript values and string primitives
\* ------------------------------------------------------------------------
Undefined == "undefined"

Min(a, b) == IF a < b THEN a ELSE b

Max(a, b) == IF a < b THEN b ELSE a

\* s.slice(a, b) for 0 <= a, 0 <= b (0-based, end exclusive, clamped)
Slice(s, a, b) == SubSeq(s, a + 1, Min(b, Len(s)))

\* s.slice(a) for 0 <= a
SliceFrom(s, a) == SubSeq(s, a + 1, Len(s))

\* s[i] with a 0-based index; Undefined outside the string
CharAt(s, i) == IF i >= 0 /\ i < Len(s) THEN s[i + 1] ELSE Undefined

StartsWith(s, p) == Len(p) <= Len(s) /\ SubSeq(s, 1, Len(p)) = p

EndsWith(s, p) == Len(p) <= Len(s) /\ SubSeq(s, Len(s) - Len(p) + 1, Len(s)) = p

Includes(s, c) == \E k \in 1..Len(s) : s[k] = c

\* index (1-based) of the first occurrence of c at or after position k, 0 if none
RECURSIVE IndexFrom(_, _, _)
IndexFrom(s, c, k) ==
  IF k > Len(s) THEN 0
  ELSE IF s[k] = c THEN k
  ELSE IndexFrom(s, c, k + 1)

\* s.split(c): '' gives [''], 'a/' gives ['a', '']
RECURSIVE Split(_, _)
Split(s, c) ==
  LET k == IndexFrom(s, c, 1)
  IN IF k = 0 THEN << s >>
     ELSE << SubSeq(s, 1, k - 1) >> \o Split(SubSeq(s, k + 1, Len(s)), c)

\* parts.join(c)
RECURSIVE Join(_, _)
Join(parts, c) ==
  IF parts = << >> THEN << >>
  ELSE IF Len(parts) = 1 THEN parts[1]
  ELSE parts[1] \o << c >> \o Join(Tail(parts), c)

SLASH == << "/" >>

DOT == << "." >>

DOTDOT == << ".", "." >>

GLOBSTAR == << "*", "*" >>

\* ------------------------------------------------------------------------
\* node:path (posix)
\* ------------------------------------------------------------------------
\* normalizeString(path, allowAboveRoot) on the segments of the path
RECURSIVE NormalizeSegs(_, _, _)
NormalizeSegs(segs, acc, allowAboveRoot) ==
  IF segs = << >> THEN acc
  ELSE LET s == Head(segs)
           rest == Tail(segs)
       IN IF s = << >> \/ s = DOT THEN NormalizeSegs(rest, acc, allowAboveRoot)
          ELSE IF s = DOTDOT
               THEN IF acc # << >> /\ acc[Len(acc)] # DOTDOT
                    THEN NormalizeSegs(rest, SubSeq(acc, 1, Len(acc) - 1), allowAboveRoot)
                    ELSE IF allowAboveRoot
                         THEN NormalizeSegs(rest, Append(acc, s), allowAboveRoot)
                         ELSE NormalizeSegs(rest, acc, allowAboveRoot)
               ELSE NormalizeSegs(rest, Append(acc, s), allowAboveRoot)

IsAbsolute(s) == CharAt(s, 0) = "/"

\* posix.normalize(path)
PosixNormalize(path) ==
  IF path = << >> THEN DOT
  ELSE LET abs == IsAbsolute(path)
           trailing == path[Len(path)] = "/"
           body == Join(NormalizeSegs(Split(path, "/"), << >>, ~abs), "/")
       IN IF body = << >>
          THEN IF abs THEN SLASH ELSE IF trailing THEN << ".", "/" >> ELSE DOT
          ELSE (IF abs THEN SLASH ELSE << >>) \o body \o (IF trailing THEN SLASH ELSE << >>)

\* posix.join(a, b): empty arguments are skipped
PosixJoin(a, b) ==
  IF a = << >> /\ b = << >> THEN DOT
  ELSE IF b = << >> THEN PosixNormalize(a)
  ELSE IF a = << >> THEN PosixNormalize(b)
  ELSE PosixNormalize(a \o SLASH \o b)

\* the segments of posix.resolve(p) for an absolute p
ResolveSegs(p) == NormalizeSegs(Split(p, "/"), << >>, FALSE)

RECURSIVE CommonLen(_, _)
CommonLen(f, t) ==
  IF f = << >> \/ t = << >> THEN 0
  ELSE IF Head(f) = Head(t) THEN 1 + CommonLen(Tail(f), Tail(t))
  ELSE 0

\* posix.relative(from, to) for absolute from and to
PosixRelative(from, to) ==
  LET f == ResolveSegs(from)
      t == ResolveSegs(to)
      k == CommonLen(f, t)
      ups == [j \in 1..(Len(f) - k) |-> DOTDOT]
  IN Join(ups \o SubSeq(t, k + 1, Len(t)), "/")


\* ------------------------------------------------------------------------
\* utils.ts: escapePath, splitPattern, isDynamicPattern
\* ------------------------------------------------------------------------
BACKSLASH == "\\"

\* the class [()[\]{}*?|] of POSIX_UNESCAPED_GLOB_SYMBOLS
GlobSymbols == {"(", ")", "[", "]", "{", "}", "*", "?", "|"}

\* the class [()[\]{}!*+?@|] that keeps a preceding backslash an escape
EscapableSymbols == {"(", ")", "[", "]", "{", "}", "!", "*", "+", "?", "@", "|"}

\* one match of POSIX_UNESCAPED_GLOB_SYMBOLS at 0-based index i of path
IsUnescapedGlobSymbol(path, i) ==
  LET c == CharAt(path, i)
      next == CharAt(path, i + 1)
  IN /\ CharAt(path, i - 1) # BACKSLASH
     /\ \/ c \in GlobSymbols
        \/ c = "!" /\ i = 0
        \/ c \in {"!", "+", "@"} /\ next = "("
        \/ c = BACKSLASH /\ next \notin EscapableSymbols

\* path.replace(POSIX_UNESCAPED_GLOB_SYMBOLS, '\\$&')
RECURSIVE EscapeFrom(_, _)
EscapeFrom(path, i) ==
  IF i >= Len(path) THEN << >>
  ELSE (IF IsUnescapedGlobSymbol(path, i) THEN << BACKSLASH >> ELSE << >>)
         \o << path[i + 1] >> \o EscapeFrom(path, i + 1)

escapePosixPath(path) == EscapeFrom(path, 0)

\* the platform is posix
escapePath(path) == escapePosixPath(path)

\* picomatch.scan(path, { parts: true }).parts over patterns without
\* brackets or parentheses: leading '!' and './' are not part of the first
\* part, the slices between slashes are the parts, a leading empty slice is
\* dropped and the tail is kept only after a slash at an index other than 0.
\* The scan runs through a brace to its end without recording its slashes.
IN_BRACES == "/{}"

\* the slashes the scan does not record, replaced by IN_BRACES
RECURSIVE SkipBraces(_, _)
SkipBraces(path, braces) ==
  IF path = << >> THEN << >>
  ELSE IF Head(path) = "{" THEN << "{" >> \o SkipBraces(Tail(path), braces + 1)
  ELSE IF Head(path) = "}" /\ braces > 0
       THEN << "}" >> \o SkipBraces(Tail(path), braces - 1)
  ELSE IF Head(path) = "/" /\ braces > 0
       THEN << IN_BRACES >> \o SkipBraces(Tail(path), braces)
  ELSE << Head(path) >> \o SkipBraces(Tail(path), braces)

\* the parts as the slices of the pattern
Slices(parts) ==
  [k \in 1..Len(parts) |->
     [i \in 1..Len(parts[k]) |-> IF parts[k][i] = IN_BRACES THEN "/" ELSE parts[k][i]]]

RECURSIVE ScanStart(_, _)
ScanStart(path, start) ==
  IF CharAt(path, start) = "!" THEN ScanStart(path, start + 1)
  ELSE IF CharAt(path, start) = "." /\ CharAt(path, start + 1) = "/" THEN start + 2
  ELSE start

ScanParts(path) ==
  LET start == ScanStart(path, 0)
      body == SkipBraces(SliceFrom(path, start), 0)
      pieces == Split(body, "/")
      n == Len(pieces)
      inner == SubSeq(pieces, 1, n - 1)
      kept == IF inner # << >> /\ Head(inner) = << >> THEN Tail(inner) ELSE inner
      lastSlashAtZero == start = 0 /\ n = 2 /\ pieces[1] = << >>
  IN IF n = 1 THEN << >>
     ELSE IF pieces[n] # << >> /\ ~lastSlashAtZero THEN Slices(Append(kept, pieces[n]))
     ELSE Slices(kept)

\* if a pattern has no slashes outside glob symbols, results.parts is []
splitPattern(path) ==
  LET parts == ScanParts(path)
  IN IF parts # << >> THEN parts ELSE << path >>

\* picomatch.scan(pattern): isGlob || negated
isDynamicPattern(pattern) ==
  \/ \E k \in 1..Len(pattern) : pattern[k] \in {"*", "?", "[", "]", "{", "}", "(", ")"}
  \/ CharAt(pattern, 0) = "!"

\* ------------------------------------------------------------------------
\* patterns.ts: normalizePattern
\* ------------------------------------------------------------------------
\* PARENT_DIRECTORY = /^(\/?\.\.)+/ : the length of the match at index i on
RECURSIVE ParentDirLen(_, _)
ParentDirLen(s, i) ==
  IF CharAt(s, i) = "/" /\ CharAt(s, i + 1) = "." /\ CharAt(s, i + 2) = "."
  THEN ParentDirLen(s, i + 3)
  ELSE IF CharAt(s, i) = "." /\ CharAt(s, i + 1) = "."
  THEN ParentDirLen(s, i + 2)
  ELSE i

\* PARENT_DIRECTORY.exec(result)?.[0], the empty string when there is no match
PARENT_DIRECTORY(result) == Slice(result, 0, ParentDirLen(result, 0))

\* ESCAPING_BACKSLASHES = /\\(?=[()[\]{}!*+?@|])/g removed from s
RECURSIVE RemoveEscapingBackslashes(_)
RemoveEscapingBackslashes(s) ==
  IF s = << >> THEN << >>
  ELSE IF Head(s) = BACKSLASH /\ CharAt(s, 1) \in EscapableSymbols
       THEN RemoveEscapingBackslashes(Tail(s))
       ELSE << Head(s) >> \o RemoveEscapingBackslashes(Tail(s))

Defined(a, i) == i >= 0 /\ i < Len(a)

\* parts[i + n] === cwdParts[cwdParts.length + i - n] (undefined === undefined holds)
SameAsCwdPart(parts, cwdParts, i, n) ==
  LET a == i + n
      b == Len(cwdParts) + i - n
  IN IF Defined(parts, a) /\ Defined(cwdParts, b) THEN parts[a + 1] = cwdParts[b + 1]
     ELSE ~Defined(parts, a) /\ ~Defined(cwdParts, b)

\* the while loop of lines 34-36: normalize `../foo/bar` to `bar` when cwd
\* ends with `/foo`; reading .length of an undefined part throws
RECURSIVE CollapseLoop(_, _, _, _, _)
CollapseLoop(result, i, n, parts, cwdParts) ==
  IF i < n /\ SameAsCwdPart(parts, cwdParts, i, n)
  THEN IF ~Defined(parts, i + n)
       THEN [result |-> result, i |-> i, threw |-> TRUE]
       ELSE LET rest == SliceFrom(result, (n - i) * 3 + Len(parts[i + n + 1]) + 1)
                next == Slice(result, 0, (n - i - 1) * 3)
                          \o (IF rest = << >> THEN DOT ELSE rest)
            IN CollapseLoop(next, i + 1, n, parts, cwdParts)
  ELSE [result |-> result, i |-> i, threw |-> FALSE]

\* the for loop of lines 53-64 (the loop has no push)
RECURSIVE CommonPathLoop(_, _, _, _, _)
CommonPathLoop(i, length, parts, commonPath, newCommonPath) ==
  IF i >= length THEN newCommonPath
  ELSE LET part == parts[i + 1]
       IN IF part = GLOBSTAR /\ (~Defined(parts, i + 1) \/ parts[i + 2] = << >>)
          THEN SubSeq(newCommonPath, 1, Len(newCommonPath) - 1)
          ELSE IF i = Len(parts) - 1 \/ part # commonPath[i + 1] \/ isDynamicPattern(part)
               THEN newCommonPath
               ELSE CommonPathLoop(i + 1, length, parts, commonPath, newCommonPath)

\* props.commonPath is << >> while unset and << array >> once set
InitialProps(cwd) == [root |-> cwd, depthOffset |-> 0, commonPath |-> << >>]

\* lines 12-14: a trailing slash is removed
Stripped(pattern) ==
  IF CharAt(pattern, Len(pattern) - 1) = "/"
  THEN Slice(pattern, 0, Len(pattern) - 1) ELSE pattern

\* lines 16-18: using a directory as entry should match all files inside it
Expanded(result, opts) ==
  IF CharAt(result, Len(result) - 1) # "*" /\ opts.expandDirectories
  THEN result \o << "/", "*", "*" >> ELSE result

\* lines 20-23: an absolute pattern is made relative to cwd, any other is
\* normalized
Resolved(result, cwd) ==
  IF IsAbsolute(RemoveEscapingBackslashes(result))
  THEN PosixRelative(escapePath(cwd), result)
  ELSE PosixNormalize(result)

\* lines 30-36: n, cwdParts and the while loop; the result, the i it ends
\* with and whether it threw.  A fractional n makes both indexed reads
\* undefined on the first test, and the read of .length throws.
Collapsed(result, parentDir, parts, cwd) ==
  IF parentDir = << >> THEN [result |-> result, i |-> 0, threw |-> FALSE]
  ELSE IF (Len(parentDir) + 1) % 3 # 0 THEN [result |-> result, i |-> 0, threw |-> TRUE]
  ELSE CollapseLoop(result, 0, (Len(parentDir) + 1) \div 3, parts,
                    Split(escapePath(cwd), "/"))

\* root and depthOffset set to the potential root of every pattern
MoveRootToAny(potentialRoot, depthOffset, props) ==
  IF CharAt(potentialRoot, 0) # "."
  THEN [props EXCEPT !.root = potentialRoot, !.depthOffset = depthOffset]
  ELSE props

\* lines 41-44: root and depthOffset are set if the potential root is shorter
MoveRootTo(potentialRoot, depthOffset, props) ==
  IF CharAt(potentialRoot, 0) # "." /\ Len(props.root) > Len(potentialRoot)
  THEN [props EXCEPT !.root = potentialRoot, !.depthOffset = depthOffset]
  ELSE props

\* lines 29-45: move root n directories up, i of them collapsed
MoveRoot(i, parentDir, cwd, props) ==
  IF parentDir = << >> THEN props
  ELSE MoveRootTo(PosixJoin(cwd, SliceFrom(parentDir, i * 3)),
                  i - (Len(parentDir) + 1) \div 3, props)

\* lines 66-69: depthOffset, commonPath and root from newCommonPath
SetCommonPath(newCommonPath, cwd) ==
  [root |-> IF Len(newCommonPath) > 0
            THEN PosixJoin(cwd, Join(newCommonPath, "/")) ELSE cwd,
   depthOffset |-> Len(newCommonPath),
   commonPath |-> << newCommonPath >>]

\* lines 50-64: newCommonPath from props.commonPath (after the ??=) and parts
NewCommonPath(commonPath, parts) ==
  CommonPathLoop(0, Min(Len(commonPath), Len(parts)), parts, commonPath, << >>)

\* the common path inferred from ignore patterns too
InferCommonPathOfAll(props, parts, cwd, isIgnore) ==
  IF props.depthOffset >= 0
  THEN SetCommonPath(
         NewCommonPath(IF props.commonPath = << >> THEN parts ELSE props.commonPath[1],
                       parts),
         cwd)
  ELSE props

\* lines 47-70
InferCommonPath(props, parts, cwd, isIgnore) ==
  IF ~isIgnore /\ props.depthOffset >= 0
  THEN SetCommonPath(
         NewCommonPath(IF props.commonPath = << >> THEN parts ELSE props.commonPath[1],
                       parts),
         cwd)
  ELSE props

\* lines 38-72, after the while loop
AfterCollapse(loop, parentDir, parts, cwd, props, isIgnore) ==
  IF loop.threw THEN [result |-> loop.result, props |-> props, threw |-> TRUE]
  ELSE [result |-> loop.result,
        props |-> InferCommonPath(MoveRoot(loop.i, parentDir, cwd, props), parts, cwd,
                                  isIgnore),
        threw |-> FALSE]

\* lines 25-72, with parentDir and parts
NormalizeParts(result, parentDir, parts, cwd, props, isIgnore) ==
  AfterCollapse(Collapsed(result, parentDir, parts, cwd), parentDir, parts, cwd, props,
                isIgnore)

\* lines 25-72
NormalizeResolved(result, cwd, props, isIgnore) ==
  NormalizeParts(result, PARENT_DIRECTORY(result), splitPattern(result), cwd, props,
                 isIgnore)

\* normalizePattern(pattern, opts, props, isIgnore): the returned string,
\* the props after the call, and whether the call threw
normalizePattern(pattern, opts, props, isIgnore) ==
  NormalizeResolved(Resolved(Expanded(Stripped(pattern), opts), opts.cwd), opts.cwd,
                    props, isIgnore)

\* ------------------------------------------------------------------------
\* picomatch, as called from crawler.ts and utils.ts, over globs made of
\* literal characters, `*` and `**`, with the options dot and noglobstar
\* ------------------------------------------------------------------------
\* a run of `*` matches any run of characters of one segment
RECURSIVE WildMatch(_, _)
WildMatch(glob, seg) ==
  IF glob = << >> THEN seg = << >>
  ELSE IF Head(glob) = "*"
       THEN \/ WildMatch(Tail(glob), seg)
            \/ seg # << >> /\ WildMatch(glob, Tail(seg))
       ELSE seg # << >> /\ Head(glob) = Head(seg) /\ WildMatch(Tail(glob), Tail(seg))

\* what a leading star or a globstar may consume: no dot-segment unless
\* dot is set, and never `.` or `..`
NoDot(seg, options) ==
  IF options.dot THEN seg # DOT /\ seg # DOTDOT
  ELSE seg # << >> /\ Head(seg) # "."

\* one glob segment other than a globstar against one path segment
SegMatch(glob, seg, options) ==
  /\ seg # << >>
  /\ Head(glob) = "*" => NoDot(seg, options)
  /\ WildMatch(glob, seg)

AllNoDot(segs, options) == \A k \in 1..Len(segs) : NoDot(segs[k], options)

\* the segments of a glob against the segments of an input; atBos says the
\* glob segment is the first one, afterStar that the one before ended in `*`
RECURSIVE MatchSegs(_, _, _, _, _)
MatchSegs(glob, input, options, atBos, afterStar) ==
  IF glob = << >> THEN input = << >>
  ELSE IF Head(glob) = GLOBSTAR
  THEN IF Len(glob) = 1
       THEN IF options.noglobstar
            THEN \/ ~atBos /\ ~afterStar /\ input = << >>
                 \/ Len(input) = 1 /\ NoDot(input[1], options)
            ELSE \/ ~atBos /\ ~afterStar /\ input = << >>
                 \/ input # << >> /\ AllNoDot(input, options)
       ELSE \/ MatchSegs(Tail(glob), input, options, FALSE, FALSE)
            \/ \E k \in 1..Len(input) :
                 /\ options.noglobstar => k = 1
                 /\ (atBos /\ options.noglobstar) \/ AllNoDot(SubSeq(input, 1, k), options)
                 /\ MatchSegs(Tail(glob), SubSeq(input, k + 1, Len(input)), options,
                              FALSE, FALSE)
  ELSE /\ input # << >>
       /\ SegMatch(Head(glob), Head(input), options)
       /\ MatchSegs(Tail(glob), Tail(input), options, FALSE,
                    Head(glob)[Len(Head(glob))] = "*")

\* picomatch(glob, options)(input) for one glob: picomatch.test accepts an
\* input equal to the glob before it tries the regular expression
PicomatchOne(glob, input, options) ==
  /\ input # << >>
  /\ \/ input = glob
     \/ MatchSegs(Split(glob, "/"), Split(input, "/"), options, TRUE, FALSE)

\* picomatch(globs, options)(input) for a list of globs, without `ignore`
PicomatchAny(globs, input, options) ==
  \E k \in 1..Len(globs) : PicomatchOne(globs[k], input, options)

\* picomatch(globs, { ...options, ignore })(input)
Picomatch(globs, ignore, input, options) ==
  /\ PicomatchAny(globs, input, options)
  /\ ~PicomatchAny(ignore, input, options)

\* picomatch throws 'Expected pattern to be a non-empty string'
PicomatchThrows(globs) == \E k \in 1..Len(globs) : globs[k] = << >>

\* ------------------------------------------------------------------------
\* utils.ts: getPartialMatcher
\* ------------------------------------------------------------------------
\* ONLY_PARENT_DIRECTORIES = /^(\/?\.\.)+$/
ONLY_PARENT_DIRECTORIES(input) ==
  input # << >> /\ ParentDirLen(input, 0) = Len(input)

\* the while loop with a part that holds a slash matched like any other
RECURSIVE PartialLoopMatchesAll(_, _, _, _, _)
PartialLoopMatchesAll(patternParts, inputParts, j, minParts, options) ==
  IF j >= minParts THEN j = Len(inputParts)
  ELSE LET part == patternParts[j + 1]
       IN IF ~PicomatchOne(part, inputParts[j + 1], options)
          THEN j = Len(inputParts)
          ELSE IF ~options.noglobstar /\ part = GLOBSTAR THEN TRUE
          ELSE PartialLoopMatchesAll(patternParts, inputParts, j + 1, minParts, options)

\* the while loop with `**` taken to return true in all cases
RECURSIVE PartialLoopGlobstarPasses(_, _, _, _, _)
PartialLoopGlobstarPasses(patternParts, inputParts, j, minParts, options) ==
  IF j >= minParts THEN j = Len(inputParts)
  ELSE LET part == patternParts[j + 1]
       IN IF Includes(part, "/") THEN TRUE
          ELSE IF ~options.noglobstar /\ part = GLOBSTAR THEN TRUE
          ELSE IF ~PicomatchOne(part, inputParts[j + 1], options)
               THEN j = Len(inputParts)
          ELSE PartialLoopGlobstarPasses(patternParts, inputParts, j + 1, minParts,
                                         options)

\* the while loop with the last test taken as j === patternParts.length
RECURSIVE PartialLoopWholePattern(_, _, _, _, _)
PartialLoopWholePattern(patternParts, inputParts, j, minParts, options) ==
  IF j >= minParts THEN j = Len(patternParts)
  ELSE LET part == patternParts[j + 1]
       IN IF Includes(part, "/") THEN TRUE
          ELSE IF ~PicomatchOne(part, inputParts[j + 1], options)
               THEN FALSE
               ELSE IF ~options.noglobstar /\ part = GLOBSTAR THEN TRUE
               ELSE PartialLoopWholePattern(patternParts, inputParts, j + 1, minParts,
                                            options)

\* the while loop of lines 46-70 for one pattern; the result is "true" for
\* an early return true, else the value of j === inputPatternCount
RECURSIVE PartialLoop(_, _, _, _, _)
PartialLoop(patternParts, inputParts, j, minParts, options) ==
  IF j >= minParts THEN j = Len(inputParts)
  ELSE LET part == patternParts[j + 1]
       IN IF Includes(part, "/") THEN TRUE
          ELSE IF ~PicomatchOne(part, inputParts[j + 1], options)
               THEN j = Len(inputParts)
               ELSE IF ~options.noglobstar /\ part = GLOBSTAR THEN TRUE
               ELSE PartialLoop(patternParts, inputParts, j + 1, minParts, options)

\* getPartialMatcher(patterns, options)(input)
getPartialMatcher(patterns, options, input) ==
  LET inputParts == Split(input, "/")
  IN \/ inputParts[1] = DOTDOT /\ ONLY_PARENT_DIRECTORIES(input)
     \/ \E i \in 1..Len(patterns) :
          LET patternParts == splitPattern(patterns[i])
          IN PartialLoop(patternParts, inputParts, 0,
                         Min(Len(inputParts), Len(patternParts)), options)

\* ------------------------------------------------------------------------
\* utils.ts: buildFormat, buildRelative
\* ------------------------------------------------------------------------
\* p.slice(start, -1)
SliceDropLast(p, start) == SubSeq(p, start + 1, Len(p) - 1)

OrDot(s) == IF s = << >> THEN DOT ELSE s

\* isRoot on posix
isRoot(p) == p = SLASH

\* the formatter that leaves the trailing slash of a directory in place
buildFormatKeepsSlash(cwd, root, absolute, p, isDir) ==
  IF cwd = root \/ StartsWith(root, cwd \o SLASH)
  THEN IF absolute
       THEN OrDot(SliceFrom(p, IF isRoot(cwd) THEN Len(cwd) ELSE Len(cwd) + 1))
       ELSE IF SliceFrom(root, Len(cwd) + 1) # << >>
            THEN IF p = DOT THEN SliceFrom(root, Len(cwd) + 1)
                 ELSE SliceFrom(root, Len(cwd) + 1) \o SLASH \o p
            ELSE p
  ELSE IF absolute
       THEN OrDot(PosixRelative(cwd, p))
       ELSE OrDot(PosixRelative(cwd, root \o SLASH \o p))

\* buildFormat(cwd, root, absolute)(p, isDir)
buildFormat(cwd, root, absolute, p, isDir) ==
  IF cwd = root \/ StartsWith(root, cwd \o SLASH)
  THEN IF absolute
       THEN LET start == IF isRoot(cwd) THEN Len(cwd) ELSE Len(cwd) + 1
            IN OrDot(IF isDir THEN SliceDropLast(p, start) ELSE SliceFrom(p, start))
       ELSE LET prefix == SliceFrom(root, Len(cwd) + 1)
            IN IF prefix # << >>
               THEN IF p = DOT THEN prefix
                    ELSE LET result == prefix \o SLASH \o p
                         IN IF isDir THEN SliceDropLast(result, 0) ELSE result
               ELSE IF isDir /\ p # DOT THEN SliceDropLast(p, 0) ELSE p
  ELSE IF absolute
       THEN OrDot(PosixRelative(cwd, p))
       ELSE OrDot(PosixRelative(cwd, root \o SLASH \o p))

\* the mapper without lines 123-125: no slash is put back
buildRelativeBare(cwd, root, p) ==
  IF StartsWith(root, cwd \o SLASH)
  THEN SliceFrom(root, Len(cwd) + 1) \o SLASH \o p
  ELSE OrDot(PosixRelative(cwd, root \o SLASH \o p))

\* buildRelative(cwd, root)(p)
buildRelative(cwd, root, p) ==
  IF StartsWith(root, cwd \o SLASH)
  THEN SliceFrom(root, Len(cwd) + 1) \o SLASH \o p
  ELSE LET result == PosixRelative(cwd, root \o SLASH \o p)
       IN IF EndsWith(p, SLASH) /\ result # << >> THEN result \o SLASH
          ELSE OrDot(result)

\* ------------------------------------------------------------------------
\* The file system the walker reads: directory paths end in `/`
\* ------------------------------------------------------------------------
NAME_R == << "r" >>

NAME_A == << "a" >>

NAME_B == << "b" >>

NAME_X == << "x" >>

NAME_DOTA == << ".", "a" >>

SLASHROOT == << "/" >>

DIR_R == << "/", "r", "/" >>

DIR_R_A == << "/", "r", "/", "a", "/" >>

DIR_R_B == << "/", "r", "/", "b", "/" >>

DIR_R_DOTA == << "/", "r", "/", ".", "a", "/" >>

CWD_R == << "/", "r" >>

CWD_R_A == << "/", "r", "/", "a" >>

File(name) == [name |-> name, isDirectory |-> FALSE]

Dir(name) == [name |-> name, isDirectory |-> TRUE]

Readdir(directoryPath) ==
  CASE directoryPath = SLASHROOT -> << Dir(NAME_R) >>
    [] directoryPath = DIR_R -> << Dir(NAME_DOTA), Dir(NAME_A), Dir(NAME_B) >>
    [] directoryPath = DIR_R_DOTA -> << File(NAME_X) >>
    [] directoryPath = DIR_R_A -> << File(NAME_X) >>
    [] directoryPath = DIR_R_B -> << File(NAME_X) >>
    [] OTHER -> << >>

\* ------------------------------------------------------------------------
\* crawler.ts and fdir: the walk
\* ------------------------------------------------------------------------
\* an optional value v is << >> when undefined and << v >> when set
None == << >>

Some(v) == << v >>

\* matchOptions of buildCrawlerInfo, as far as picomatch is modelled
MatchOptions(options) == [dot |-> options.dot, noglobstar |-> options.globstar = FALSE]

\* the closure with onlyFiles taking precedence over onlyDirectories
ClosureOnlyFilesFirst(options, processed, root) ==
  [cwd |-> options.cwd, root |-> root, absolute |-> options.absolute,
   match |-> processed.match, ignore |-> processed.ignore,
   matchOptions |-> MatchOptions(options),
   excludeFiles |-> options.onlyDirectories /\ ~options.onlyFiles,
   includeDirs |-> ~options.onlyFiles, sort |-> options.sort]

\* the closure with the root read before the patterns are normalized
ClosureOfInitialProps(options, processed, root) ==
  [cwd |-> options.cwd, root |-> options.cwd, absolute |-> options.absolute,
   match |-> processed.match, ignore |-> processed.ignore,
   matchOptions |-> MatchOptions(options),
   excludeFiles |-> options.onlyDirectories,
   includeDirs |-> options.onlyDirectories \/ ~options.onlyFiles,
   sort |-> options.sort]

\* the closure state of one crawler: K.root is the root handed to crawl()
Closure(options, processed, root) ==
  [cwd |-> options.cwd, root |-> root, absolute |-> options.absolute,
   match |-> processed.match, ignore |-> processed.ignore,
   matchOptions |-> MatchOptions(options),
   excludeFiles |-> options.onlyDirectories,
   includeDirs |-> options.onlyDirectories \/ ~options.onlyFiles,
   sort |-> options.sort]

\* fdir keeps its root with a trailing separator
FdirRoot(root) == IF EndsWith(root, SLASH) THEN root ELSE root \o SLASH

\* the filter with a matcher that is not given the ignore patterns
FilterWithoutIgnore(K, p, isDirectory) ==
  PicomatchAny(K.match, buildFormat(K.cwd, K.root, K.absolute, p, isDirectory),
               K.matchOptions)

\* the filter handed to fdir: (p, isDirectory) => matcher(format(p, isDirectory))
Filter(K, p, isDirectory) ==
  Picomatch(K.match, K.ignore, buildFormat(K.cwd, K.root, K.absolute, p, isDirectory),
            K.matchOptions)

\* the predicate that prunes by the partial matcher only
excludePredicateOfPartial(K, p) ==
  /\ buildFormat(K.cwd, K.root, TRUE, p, TRUE) # DOT
  /\ ~getPartialMatcher(K.match, K.matchOptions, buildFormat(K.cwd, K.root, TRUE, p, TRUE))

\* excludePredicate of buildCrawler
excludePredicate(K, p) ==
  LET relativePath == buildFormat(K.cwd, K.root, TRUE, p, TRUE)
  IN \/ relativePath # DOT /\ ~getPartialMatcher(K.match, K.matchOptions, relativePath)
     \/ PicomatchAny(K.ignore, relativePath, K.matchOptions)

\* fdir pushDirectory with filters: relative to the root unless absolute
pushDirectory(K, directoryPath, paths) ==
  LET p == IF K.absolute THEN OrDot(directoryPath)
           ELSE OrDot(SliceFrom(directoryPath, Len(FdirRoot(K.root))))
  IN IF K.includeDirs /\ Filter(K, p, TRUE) THEN Append(paths, p) ELSE paths

\* fdir pushFile with filters, on the path joinPath gives the file
pushFile(K, name, directoryPath, paths) ==
  LET p == IF K.absolute THEN directoryPath \o name
           ELSE SliceFrom(directoryPath, Len(FdirRoot(K.root))) \o name
  IN IF ~K.excludeFiles /\ Filter(K, p, FALSE) THEN Append(paths, p) ELSE paths

BelowZero(depth) == depth # None /\ depth[1] < 0

MinusOne(depth) == IF depth = None THEN None ELSE Some(depth[1] - 1)

\* fdir walk: the entries of one directory in order; st is the paths found
\* and the directories whose read is pending.  In the synchronous walker a
\* directory is walked as soon as it is met.
RECURSIVE WalkEntries(_, _, _, _, _, _)
WalkEntries(K, entries, directoryPath, depth, st, sync) ==
  IF entries = << >> THEN st
  ELSE LET entry == Head(entries)
           path == directoryPath \o entry.name \o SLASH
           pushed == [st EXCEPT !.paths = pushDirectory(K, path, st.paths)]
           next ==
             IF ~entry.isDirectory
             THEN [st EXCEPT !.paths = pushFile(K, entry.name, directoryPath, st.paths)]
             ELSE IF excludePredicate(K, path) THEN st
             ELSE IF BelowZero(MinusOne(depth)) THEN pushed
             ELSE IF sync
                  THEN WalkEntries(K, Readdir(path), path, MinusOne(depth), pushed, sync)
                  ELSE [pushed EXCEPT !.queue =
                          Append(pushed.queue, [path |-> path, depth |-> MinusOne(depth)])]
       IN WalkEntries(K, Tail(entries), directoryPath, depth, next, sync)

\* fdir start: the root directory is pushed, then walked unless maxDepth < 0
WalkSync(K, maxDepth) ==
  LET root == FdirRoot(K.root)
      st == [paths |-> pushDirectory(K, root, << >>), queue |-> << >>]
  IN IF BelowZero(maxDepth) THEN st.paths
     ELSE WalkEntries(K, Readdir(root), root, maxDepth, st, TRUE).paths

\* ------------------------------------------------------------------------
\* The calls the model makes: patterns, options and call shapes
\* ------------------------------------------------------------------------
P_A_X == << "a", "/", "x" >>

P_GLOBSTAR == << "*", "*" >>

P_GS_DOTA_X == << "*", "*", "/", ".", "a", "/", "x" >>

P_UP_B_STAR == << ".", ".", "/", "b", "/", "*" >>

P_UP_A_X == << ".", ".", "/", "a", "/", "x" >>

P_NOT_B_X == << "!", "b", "/", "x" >>

P_NOTNOT_A_X == << "!", "!", "a", "/", "x" >>

P_EMPTY == << >>

P_DOTDOTA_X == << ".", ".", "a", "/", "x" >>

P_NOT == << "!" >>

P_UP_UP_X == << ".", ".", "/", ".", ".", "/", "x" >>

P_B == << "b" >>

P_UP_B_X == << ".", ".", "/", "b", "/", "x" >>

P_GS_STAR == << "*", "*", "/", "*" >>

PatternPool ==
  {P_A_X, P_GLOBSTAR, P_GS_DOTA_X, P_UP_B_STAR, P_UP_A_X, P_NOT_B_X, P_NOTNOT_A_X,
   P_DOTDOTA_X, P_NOT, P_UP_UP_X}

IgnorePool == {P_B, P_UP_B_X}

OptionPatternPool == {P_GLOBSTAR, P_UP_B_STAR}

Cwds == {CWD_R, CWD_R_A}

Lists(S, n) == UNION {[1..k -> S] : k \in 0..n}

\* the options object of a call; cwd, onlyFiles and deep may be left out
BaseOptions(cwd) ==
  [cwd |-> Some(cwd), ignore |-> << >>, expandDirectories |-> TRUE, dot |-> FALSE,
   deep |-> None, onlyDirectories |-> FALSE, onlyFiles |-> None,
   absolute |-> FALSE, globstar |-> TRUE, sort |-> None]

\* glob(globInput, options) or globSync(globInput, options): globInput is an
\* array of patterns, one pattern string, or (deprecated) an options object
\* whose patterns may be left out; patterns is options.patterns
Request(kind, value, patterns, options, sync) ==
  [kind |-> kind, value |-> value, patterns |-> patterns, options |-> options,
   sync |-> sync]

PatternRequests ==
  {Request("array", ps, None,
           [BaseOptions(cwd) EXCEPT !.ignore = ig, !.expandDirectories = e], sync) :
     ps \in Lists(PatternPool, MaxPatterns), ig \in Lists(IgnorePool, MaxIgnore),
     cwd \in Cwds, e \in BOOLEAN, sync \in BOOLEAN}

\* deep is counted in halves, so that a deep of 1.5 is the 3 of Halves
Halves == 0..(2 * MaxDeep)

OptionRequests ==
  {Request("array", ps, None,
           [BaseOptions(cwd) EXCEPT !.deep = d, !.onlyDirectories = od,
                                    !.onlyFiles = of, !.absolute = ab, !.dot = dt],
           sync) :
     ps \in Lists(OptionPatternPool, MaxPatterns) \ {<< >>},
     cwd \in Cwds, d \in {None} \cup {Some(h) : h \in Halves},
     od \in BOOLEAN, of \in {None, Some(TRUE), Some(FALSE)}, ab \in BOOLEAN,
     dt \in BOOLEAN, sync \in BOOLEAN}

\* the shapes of the first argument: an array of no or one pattern, one
\* string, or an options object with or without its own patterns string
ShapeValues(kind) ==
  IF kind = "string" THEN {<< P_A_X >>, << P_EMPTY >>}
  ELSE {<< >>, << P_A_X >>, << P_EMPTY >>}

ShapeRequests ==
  UNION {{Request(kind, value, patterns, BaseOptions(CWD_R), sync) :
            value \in ShapeValues(kind),
            patterns \in {None, Some(<< >>), Some(<< P_GLOBSTAR >>)},
            sync \in BOOLEAN} :
         kind \in {"array", "string", "object"}}

\* calls that leave cwd out
CwdRequests ==
  {Request("array", ps, None, [BaseOptions(CWD_R) EXCEPT !.cwd = None], sync) :
     ps \in Lists(OptionPatternPool, MaxPatterns) \ {<< >>}, sync \in BOOLEAN}

P_UP_GS == << ".", ".", "/", "*", "*" >>

DirectoryPatternPool == {P_GLOBSTAR, P_UP_GS}

\* calls that ask for directories, at or above cwd
DirectoryRequests ==
  {Request("array", ps, None,
           [BaseOptions(cwd) EXCEPT !.onlyDirectories = od, !.onlyFiles = of,
                                    !.absolute = ab, !.dot = dt],
           sync) :
     ps \in Lists(DirectoryPatternPool, MaxPatterns) \ {<< >>},
     cwd \in Cwds, od \in BOOLEAN, of \in {None, Some(FALSE)}, ab \in BOOLEAN,
     dt \in BOOLEAN, sync \in BOOLEAN}

SortedCallPatterns == {P_GLOBSTAR, P_UP_B_STAR, P_A_X}

SortModes == {"asc", "desc", "pattern", "pattern-asc", "pattern-desc"}

\* calls that ask for sorted results, at, below or above cwd
SortRequests ==
  {Request("array", ps, None,
           [BaseOptions(cwd) EXCEPT !.absolute = ab, !.sort = Some(sort)], sync) :
     ps \in Lists(SortedCallPatterns, MaxPatterns) \ {<< >>},
     cwd \in Cwds, ab \in BOOLEAN, sort \in SortModes, sync \in BOOLEAN}

Requests ==
  PatternRequests \cup OptionRequests \cup ShapeRequests \cup CwdRequests
    \cup DirectoryRequests \cup SortRequests

\* two calls that are in flight together: the second may be synchronous
ConcurrentPatternPool == {P_GLOBSTAR, P_UP_B_STAR, P_A_X}

ConcurrentRequests ==
  {Request("array", << p >>, None, BaseOptions(cwd), sync) :
     p \in ConcurrentPatternPool, cwd \in Cwds, sync \in BOOLEAN}

\* ------------------------------------------------------------------------
\* options.ts, index.ts: getOptions, getCrawler
\* ------------------------------------------------------------------------
\* resolve(cwd) of an absolute cwd
resolve(path) == SLASH \o Join(ResolveSegs(path), "/")

\* ensureStringArray: a string becomes an array of one, undefined becomes []
ensureStringArray(isString, value) ==
  IF isString THEN << value[1] >> ELSE value

\* the directory the process is in when the module is loaded
LOAD_CWD == CWD_R

\* defaultOptions: built once, when the module is loaded
defaultOptions == [cwd |-> LOAD_CWD, expandDirectories |-> TRUE, onlyFiles |-> TRUE]

\* getOptions: { ...defaultOptions, ...options }, then cwd resolved
getOptions(options) ==
  [options EXCEPT !.cwd = resolve(IF options.cwd = None THEN defaultOptions.cwd
                                  ELSE options.cwd[1]),
                  !.onlyFiles = IF options.onlyFiles = None THEN defaultOptions.onlyFiles
                                ELSE options.onlyFiles[1],
                  !.ignore = ensureStringArray(FALSE, options.ignore)]

DEFAULT_PATTERNS == << P_GS_STAR >>

\* globInput && inputOptions?.patterns: only the empty string is a falsy
\* first argument, and any array given as options.patterns is truthy
BothSources(r) ==
  /\ r.kind = "string" => r.value[1] # << >>
  /\ r.patterns # None

\* ensureStringArray((isModern ? globInput : globInput.patterns) ?? '**/*')
GetPatterns(r) ==
  IF r.kind = "object"
  THEN IF r.value = None THEN DEFAULT_PATTERNS
       ELSE ensureStringArray(TRUE, r.value)
  ELSE ensureStringArray(r.kind = "string", r.value)

\* ------------------------------------------------------------------------
\* patterns.ts: processPatterns
\* ------------------------------------------------------------------------
\* what processPatterns has built so far; props is the InternalProps the
\* calls of normalizePattern update, threw is set once one of them threw
EmptyProcessed(cwd) ==
  [match |-> << >>, ignore |-> << >>, props |-> InitialProps(cwd), threw |-> FALSE]

\* the push of what normalizePattern returned, r, to the match or the
\* ignore list
Pushed(acc, r, isIgnore) ==
  IF r.threw THEN [acc EXCEPT !.threw = TRUE]
  ELSE IF isIgnore
       THEN [acc EXCEPT !.ignore = Append(@, r.result), !.props = r.props]
       ELSE [acc EXCEPT !.match = Append(@, r.result), !.props = r.props]

\* normalizePattern(pattern, ...) pushed to the match or the ignore list
PushNormalized(acc, pattern, opts, isIgnore) ==
  IF acc.threw THEN acc
  ELSE Pushed(acc, normalizePattern(pattern, opts, acc.props, isIgnore), isIgnore)

\* pattern[0] !== '!' || pattern[1] === '('
NotNegated(pattern) == CharAt(pattern, 0) # "!" \/ CharAt(pattern, 1) = "("

\* one turn of the first loop: an entry of options.ignore
IgnoreStep(acc, pattern, opts) ==
  IF pattern # << >> /\ NotNegated(pattern)
  THEN PushNormalized(acc, pattern, opts, TRUE)
  ELSE acc

RECURSIVE IgnoreLoop(_, _, _)
IgnoreLoop(acc, ignore, opts) ==
  IF ignore = << >> THEN acc
  ELSE IgnoreLoop(IgnoreStep(acc, Head(ignore), opts), Tail(ignore), opts)

\* the second loop with `!!` taken as the start of a literal pattern
PatternStepLiteral(acc, pattern, opts) ==
  IF pattern = << >> THEN acc
  ELSE IF NotNegated(pattern) \/ CharAt(pattern, 1) = "!"
       THEN PushNormalized(acc, pattern, opts, FALSE)
  ELSE PushNormalized(acc, SliceFrom(pattern, 1), opts, TRUE)

\* one turn of the second loop: a pattern
PatternStep(acc, pattern, opts) ==
  IF pattern = << >> THEN acc
  ELSE IF NotNegated(pattern)
       THEN PushNormalized(acc, pattern, opts, FALSE)
  ELSE IF CharAt(pattern, 1) # "!" \/ CharAt(pattern, 2) = "("
       THEN PushNormalized(acc, SliceFrom(pattern, 1), opts, TRUE)
  ELSE acc

RECURSIVE PatternLoop(_, _, _)
PatternLoop(acc, pats, opts) ==
  IF pats = << >> THEN acc
  ELSE PatternLoop(PatternStep(acc, Head(pats), opts), Tail(pats), opts)

processPatterns(opts, pats) ==
  PatternLoop(IgnoreLoop(EmptyProcessed(opts.cwd), opts.ignore, opts), pats, opts)

\* ------------------------------------------------------------------------
\* crawler.ts: buildCrawlerInfo, buildCrawler;  index.ts: getCrawler
\* ------------------------------------------------------------------------
\* Math.round of a number of halves: ties go up
MathRound(halves) == (halves + 1) \div 2

\* maxDepth set only for a truthy options.deep
MaxDepthOfTruthy(options, depthOffset) ==
  IF options.deep # None /\ options.deep[1] # 0
  THEN Some(MathRound(options.deep[1] - 2 * depthOffset))
  ELSE None

\* maxDepth of buildCrawler: set exactly when options.deep is
MaxDepthOf(options, depthOffset) ==
  IF options.deep # None THEN Some(MathRound(options.deep[1] - 2 * depthOffset))
  ELSE None

\* buildCrawler once the patterns are processed: the crawler, or the error
\* thrown on the way.  picomatch throws a TypeError on an empty glob.
Built(options, processed) ==
  IF processed.threw \/ PicomatchThrows(processed.match)
       \/ PicomatchThrows(processed.ignore)
  THEN [error |-> "TypeError", processed |-> None, crawler |-> None]
  ELSE [error |-> "none",
        processed |-> Some([match |-> processed.match, ignore |-> processed.ignore,
                            props |-> processed.props]),
        crawler |-> Some([closure |-> Closure(options, processed, processed.props.root),
                          maxDepth |-> MaxDepthOf(options, processed.props.depthOffset)])]

buildCrawler(options, pats) == Built(options, processPatterns(options, pats))

\* what getCrawler returns or throws, with the options and the patterns
WithCrawler(options, pats, built) ==
  [error |-> built.error, opts |-> Some(options), patterns |-> Some(pats),
   processed |-> built.processed, crawler |-> built.crawler]

\* getCrawler without the return of lines 29-31: a crawler for no pattern too
getCrawlerAlwaysBuilds(options, pats) ==
  WithCrawler(options, pats, buildCrawler(options, pats))

\* lines 29-34: the crawler is built unless there is no pattern
getCrawlerFor(options, pats) ==
  IF Len(pats) = 0
  THEN [error |-> "none", opts |-> Some(options), patterns |-> Some(pats),
        processed |-> None, crawler |-> None]
  ELSE WithCrawler(options, pats, buildCrawler(options, pats))

\* getCrawler: patterns and options are taken from the call
getCrawler(r) ==
  IF BothSources(r)
  THEN [error |-> "Error", opts |-> None, patterns |-> None, processed |-> None,
        crawler |-> None]
  ELSE getCrawlerFor(getOptions(r.options), GetPatterns(r))

\* ------------------------------------------------------------------------
\* sort.ts: compileMatchers, sortFilesByPatternPrecedence
\* ------------------------------------------------------------------------
\* what buildCrawlerInfo returns, as far as the matchers read it
CrawlerInfo(options, processed) ==
  [cwd |-> options.cwd, root |-> processed.props.root, absolute |-> options.absolute,
   match |-> processed.match, ignore |-> processed.ignore,
   matchOptions |-> MatchOptions(options)]

buildCrawlerInfo(options, pats) == CrawlerInfo(options, processPatterns(options, pats))

\* one pair [glob, matcher]: the matcher is kept as what it closes over,
\* the globs picomatch compiled and the format of crawlerInfo
Matcher(info, glob, compiled) ==
  [glob |-> glob, compiled |-> compiled, ignore |-> info.ignore,
   matchOptions |-> info.matchOptions, cwd |-> info.cwd, root |-> info.root,
   absolute |-> info.absolute]

\* the pairs with every matcher compiled from the whole match list
internalCompileMatchersOfAll(info) ==
  [k \in 1..Len(info.match) |-> Matcher(info, info.match[k], info.match)]

\* internalCompileMatchers: one pair for each entry of processed.match
internalCompileMatchers(info) ==
  [k \in 1..Len(info.match) |-> Matcher(info, info.match[k], << info.match[k] >>)]

compileMatchers(pats, options) ==
  internalCompileMatchers(buildCrawlerInfo(getOptions(options), pats))

\* match(filePath) of a pair: isMatch(format(filePath, false))
Matches(m, filePath) ==
  Picomatch(m.compiled, m.ignore,
            buildFormat(m.cwd, m.root, m.absolute, filePath, FALSE), m.matchOptions)

\* the collation order of the characters the paths are made of
Rank(ch) ==
  CASE ch = "." -> 1
    [] ch = "/" -> 2
    [] ch = "a" -> 3
    [] ch = "b" -> 4
    [] ch = "r" -> 5
    [] ch = "x" -> 6
    [] OTHER -> 7

\* a.localeCompare(b): negative, zero or positive
RECURSIVE localeCompare(_, _)
localeCompare(a, b) ==
  IF a = << >> THEN (IF b = << >> THEN 0 ELSE 0 - 1)
  ELSE IF b = << >> THEN 1
  ELSE IF Rank(Head(a)) < Rank(Head(b)) THEN 0 - 1
  ELSE IF Rank(Head(a)) > Rank(Head(b)) THEN 1
  ELSE localeCompare(Tail(a), Tail(b))

sortAsc(a, b) == localeCompare(a, b)

sortDesc(a, b) == localeCompare(b, a)

Compare(sort, a, b) == IF sort = "pattern-asc" THEN sortAsc(a, b) ELSE sortDesc(a, b)

\* one element put in its place in a sorted array: after its equals
RECURSIVE Inserted(_, _, _)
Inserted(sorted, file, sort) ==
  IF sorted = << >> THEN << file >>
  ELSE IF Compare(sort, file, Head(sorted)) < 0 THEN << file >> \o sorted
  ELSE << Head(sorted) >> \o Inserted(Tail(sorted), file, sort)

\* matches.sort(sortFn): the sort is stable
RECURSIVE Sorted(_, _)
Sorted(matches, sort) ==
  IF matches = << >> THEN << >>
  ELSE Inserted(Sorted(SubSeq(matches, 1, Len(matches) - 1), sort),
                matches[Len(matches)], sort)

\* the inner loop without the set of processed files
RECURSIVE ClaimLoopOfAll(_, _, _)
ClaimLoopOfAll(files, m, acc) ==
  IF files = << >> THEN acc
  ELSE ClaimLoopOfAll(Tail(files), m,
         IF Matches(m, Head(files))
         THEN [acc EXCEPT !.matches = Append(@, Head(files))]
         ELSE acc)

\* the inner loop of lines 171-176 and 182-187: the files one pair claims;
\* acc holds processedFiles and the files claimed in this turn
RECURSIVE ClaimLoop(_, _, _)
ClaimLoop(files, m, acc) ==
  IF files = << >> THEN acc
  ELSE ClaimLoop(Tail(files), m,
         IF Head(files) \notin acc.processedFiles /\ Matches(m, Head(files))
         THEN [processedFiles |-> acc.processedFiles \cup {Head(files)},
               matches |-> Append(acc.matches, Head(files))]
         ELSE acc)

\* what one turn of the outer loop yields, after the claims of the turn
Yielded(out, claimed, sort) ==
  [processedFiles |-> claimed.processedFiles,
   out |-> out \o (IF sort = "pattern" THEN claimed.matches
                   ELSE Sorted(claimed.matches, sort))]

\* the outer loop of lines 170-177 and 181-190 over the pairs
RECURSIVE PrecedenceLoop(_, _, _, _)
PrecedenceLoop(files, matcher, sort, acc) ==
  IF matcher = << >> THEN acc.out
  ELSE PrecedenceLoop(files, Tail(matcher), sort,
         Yielded(acc.out,
                 ClaimLoop(files, Head(matcher),
                           [processedFiles |-> acc.processedFiles, matches |-> << >>]),
                 sort))

PatternSorts == {"pattern", "pattern-asc", "pattern-desc"}

\* internalSortFilesByPatternPrecedence: sort ??= 'pattern'; any other sort
\* yields the files as they are
internalSortFilesByPatternPrecedence(files, info, sort) ==
  IF sort # None /\ sort[1] \notin PatternSorts THEN files
  ELSE PrecedenceLoop(files, internalCompileMatchers(info),
                      IF sort = None THEN "pattern" ELSE sort[1],
                      [processedFiles |-> {}, out |-> << >>])

sortFilesByPatternPrecedence(files, pats, options) ==
  internalSortFilesByPatternPrecedence(files, buildCrawlerInfo(getOptions(options), pats),
                                       options.sort)

\* ------------------------------------------------------------------------
\* index.ts: formatPaths, processResults
\* ------------------------------------------------------------------------
\* the mapper of buildCrawler: cwd !== root && !absolute && buildRelative(cwd, root)
HasMapper(K) == K.cwd # K.root /\ ~K.absolute

formatPaths(K, paths) ==
  IF HasMapper(K) THEN [i \in 1..Len(paths) |-> buildRelative(K.cwd, K.root, paths[i])]
  ELSE paths

\* sortFiles(files, patterns, options) with the patterns and options that
\* getCrawler returned: the crawler info it builds from them again is the
\* one of the closure K.  A comparator function as sort is left out.
sortFiles(files, K) ==
  IF K.sort = None THEN files
  ELSE IF K.sort[1] = "asc" THEN Sorted(files, "pattern-asc")
  ELSE IF K.sort[1] = "desc" THEN Sorted(files, "pattern-desc")
  ELSE IF K.sort[1] \in PatternSorts
       THEN internalSortFilesByPatternPrecedence(files, K, K.sort)
  ELSE files

processResults(K, paths) == sortFiles(formatPaths(K, paths), K)

\* ------------------------------------------------------------------------
\* State
\* ------------------------------------------------------------------------
Calls == {1, 2}

VARIABLES
  pc,        \* where each call stands: idle, walking, done, failed (or off)
  req,       \* the arguments of each call
  error,     \* what the call threw or rejected with, "none" if nothing
  opts,      \* getOptions(...) of the call, None before
  patterns,  \* the pattern array of getCrawler, None before
  processed, \* match, ignore and the props they left, None before
  crawler,   \* the crawler of buildCrawler and its maxDepth, None before
  walk,      \* the walker: paths found and directory reads pending
  result,    \* what the call returned or resolved with, None before
  processCwd, \* process.cwd(): the directory the process is in now
  applied    \* a utility applied outside a call: its arguments and its value

vars ==
  << pc, req, error, opts, patterns, processed, crawler, walk, result, processCwd,
     applied >>

\* the variables of the calls
calls == << pc, req, error, opts, patterns, processed, crawler, walk, result >>

Started(c) == pc[c] \notin {"idle", "off"}

NoWalk == [paths |-> << >>, queue |-> << >>, started |-> FALSE]

NotApplied == [name |-> "none"]

\* no call has been made
NoCalls ==
  /\ error = [c \in Calls |-> "none"]
  /\ opts = [c \in Calls |-> None]
  /\ patterns = [c \in Calls |-> None]
  /\ processed = [c \in Calls |-> None]
  /\ crawler = [c \in Calls |-> None]
  /\ walk = [c \in Calls |-> NoWalk]
  /\ result = [c \in Calls |-> None]
  /\ processCwd = LOAD_CWD

\* one call, or two calls that can be in flight together
Init ==
  /\ \/ /\ \E r \in Requests : req = [c \in Calls |-> r]
        /\ pc = [c \in Calls |-> IF c = 1 THEN "idle" ELSE "off"]
     \/ /\ \E r1 \in ConcurrentRequests, r2 \in ConcurrentRequests :
             req = [c \in Calls |-> IF c = 1 THEN r1 ELSE r2]
        /\ pc = [c \in Calls |-> "idle"]
  /\ NoCalls
  /\ applied = NotApplied

\* what getCrawler leaves behind
Got(c, g) ==
  /\ error' = [error EXCEPT ![c] = g.error]
  /\ opts' = [opts EXCEPT ![c] = g.opts]
  /\ patterns' = [patterns EXCEPT ![c] = g.patterns]
  /\ processed' = [processed EXCEPT ![c] = g.processed]
  /\ crawler' = [crawler EXCEPT ![c] = g.crawler]

\* lines 75-77 and 57-59: a call with no pattern returns []
ReturnEmpty(c) ==
  /\ pc' = [pc EXCEPT ![c] = "done"]
  /\ result' = [result EXCEPT ![c] = Some(<< >>)]
  /\ UNCHANGED walk

\* the call throws, or rejects, what getCrawler threw
Fail(c) ==
  /\ pc' = [pc EXCEPT ![c] = "failed"]
  /\ UNCHANGED << walk, result >>

\* line 79: processResults(crawler.sync(), ...) with the paths the walk found
ReturnFound(c, K, found) ==
  /\ pc' = [pc EXCEPT ![c] = "done"]
  /\ walk' = [walk EXCEPT ![c] = [paths |-> found, queue |-> << >>, started |-> TRUE]]
  /\ result' = [result EXCEPT ![c] = Some(processResults(K, found))]

\* globSync after getCrawler returned or threw g
GlobSyncWith(c, g) ==
  /\ Got(c, g)
  /\ IF g.error # "none" THEN Fail(c)
     ELSE IF g.crawler = None THEN ReturnEmpty(c)
     ELSE ReturnFound(c, g.crawler[1].closure,
                      WalkSync(g.crawler[1].closure, g.crawler[1].maxDepth))

\* globSync(globInput, options): getCrawler, crawler.sync(), processResults
GlobSync(c) ==
  /\ pc[c] = "idle"
  /\ req[c].sync
  /\ GlobSyncWith(c, getCrawler(req[c]))
  /\ UNCHANGED << req, processCwd, applied >>

\* crawler.withPromise(): the root is pushed and its entries are asked for,
\* unless maxDepth < 0
StartWalk(c, K, maxDepth, root) ==
  /\ pc' = [pc EXCEPT ![c] = "walking"]
  /\ walk' = [walk EXCEPT ![c] =
                [paths |-> pushDirectory(K, root, << >>),
                 queue |-> IF BelowZero(maxDepth) THEN << >>
                           ELSE << [path |-> root, depth |-> maxDepth] >>,
                 started |-> TRUE]]
  /\ UNCHANGED result

\* glob after getCrawler returned or threw g
GlobWith(c, g) ==
  /\ Got(c, g)
  /\ IF g.error # "none" THEN Fail(c)
     ELSE IF g.crawler = None THEN ReturnEmpty(c)
     ELSE StartWalk(c, g.crawler[1].closure, g.crawler[1].maxDepth,
                    FdirRoot(g.crawler[1].closure.root))

\* glob(globInput, options) up to its await: getCrawler, then
\* crawler.withPromise()
Glob(c) ==
  /\ pc[c] = "idle"
  /\ ~req[c].sync
  /\ GlobWith(c, getCrawler(req[c]))
  /\ UNCHANGED << req, processCwd, applied >>

RemoveAt(q, k) == SubSeq(q, 1, k - 1) \o SubSeq(q, k + 1, Len(q))

\* the calls that have a crawler
WithCrawlers == {d \in Calls : crawler[d] # None}

\* one closure kept for all the calls: that of the last call with a crawler
ClosureOfLatest(c) ==
  crawler[CHOOSE d \in WithCrawlers : \A e \in WithCrawlers : e <= d][1].closure

\* the callbacks of a call read the closure of the crawler of that call
ClosureOf(c) == crawler[c][1].closure

\* the callback of one pending directory read: its entries are walked
ReadDir(c, k) ==
  /\ pc[c] = "walking"
  /\ k \in 1..Len(walk[c].queue)
  /\ LET item == walk[c].queue[k]
         st == [walk[c] EXCEPT !.queue = RemoveAt(@, k)]
     IN walk' = [walk EXCEPT ![c] =
                   WalkEntries(ClosureOf(c), Readdir(item.path), item.path,
                               item.depth, st, FALSE)]
  /\ UNCHANGED << pc, req, error, opts, patterns, processed, crawler, result,
                  processCwd, applied >>

\* the walk is over: the promise of withPromise resolves and glob returns
\* processResults of the paths
Resolve(c) ==
  /\ pc[c] = "walking"
  /\ walk[c].queue = << >>
  /\ pc' = [pc EXCEPT ![c] = "done"]
  /\ result' = [result EXCEPT ![c] =
                  Some(processResults(ClosureOf(c), walk[c].paths))]
  /\ UNCHANGED << req, error, opts, patterns, processed, crawler, walk, processCwd,
                  applied >>

\* process.chdir(directory), before a call that leaves cwd out: no other
\* call reads the directory of the process
Chdir(directory) ==
  /\ directory # processCwd
  /\ \A c \in Calls : ~Started(c)
  /\ \E c \in Calls : pc[c] = "idle" /\ req[c].options.cwd = None
  /\ processCwd' = directory
  /\ UNCHANGED << calls, applied >>

Next ==
  \/ \E c \in Calls : GlobSync(c)
  \/ \E c \in Calls : Glob(c)
  \/ \E c \in Calls : \E k \in 1..Len(walk[c].queue) : ReadDir(c, k)
  \/ \E c \in Calls : Resolve(c)
  \/ \E directory \in Cwds : Chdir(directory)

Spec == Init /\ [][Next]_vars

\* ------------------------------------------------------------------------
\* The utilities of sort.ts, applied to files, patterns and options
\* ------------------------------------------------------------------------
P_B_X == << "b", "/", "x" >>

P_DOTA_X == << ".", "a", "/", "x" >>

FilePool == {P_A_X, P_B_X, P_DOTA_X}

SortPatternPool == {P_B_X, P_A_X, P_GLOBSTAR, P_NOT_B_X}

Sorts == {None} \cup {Some(sort) : sort \in PatternSorts \cup {"asc"}}

SortOptions(sort) ==
  [BaseOptions(CWD_R) EXCEPT !.expandDirectories = FALSE, !.sort = sort]

\* the arguments of a utility that has not been applied yet
Application(files, pats, options) ==
  [name |-> "none", files |-> files, patterns |-> pats, options |-> options,
   value |-> << >>]

\* no call of glob or globSync is made
CallsOff ==
  /\ pc = [c \in Calls |-> "off"]
  /\ req = [c \in Calls |-> Request("array", << >>, None, BaseOptions(CWD_R), TRUE)]
  /\ NoCalls

SortInit ==
  /\ CallsOff
  /\ \E files \in Lists(FilePool, MaxFiles), pats \in Lists(SortPatternPool, MaxPatterns),
        sort \in Sorts :
       applied = Application(files, pats, SortOptions(sort))

\* [...sortFilesByPatternPrecedence(files, patterns, options)]
SortFilesByPatternPrecedence ==
  /\ applied.name = "none"
  /\ applied' = [applied EXCEPT
                   !.name = "sortFilesByPatternPrecedence",
                   !.value = sortFilesByPatternPrecedence(applied.files, applied.patterns,
                                                          applied.options)]
  /\ UNCHANGED << calls, processCwd >>

\* [...compileMatchers(patterns, options)]
CompileMatchers ==
  /\ applied.name = "none"
  /\ applied' = [applied EXCEPT
                   !.name = "compileMatchers",
                   !.value = compileMatchers(applied.patterns, applied.options)]
  /\ UNCHANGED << calls, processCwd >>

SortNext ==
  \/ SortFilesByPatternPrecedence
  \/ CompileMatchers

SortSpec == SortInit /\ [][SortNext]_vars

\* ------------------------------------------------------------------------
\* The planner of patterns.ts, applied to one pattern string
\* ------------------------------------------------------------------------
\* the characters a pattern string is made of
PatternChars == {".", "/", "!", "*", "a"}

\* every pattern string of up to MaxChars characters
PatternStrings == Lists(PatternChars, MaxChars)

PlannerOptions(cwd, expandDirectories, ignore) ==
  [BaseOptions(cwd) EXCEPT !.cwd = cwd, !.expandDirectories = expandDirectories,
                           !.ignore = ignore]

\* the patterns that were processed before the pattern string
EarlierPatterns == {<< >>, << P_A_X >>, << P_UP_B_STAR >>, << P_UP_UP_X >>}

\* the pattern string is met with the lists and the props that the earlier
\* patterns of the invocation left
PlannerInit ==
  /\ CallsOff
  /\ \E pattern \in PatternStrings, cwd \in Cwds, e \in BOOLEAN,
        earlier \in EarlierPatterns :
       applied = [name |-> "none", pattern |-> pattern,
                  options |-> PlannerOptions(cwd, e, << >>),
                  before |-> processPatterns(PlannerOptions(cwd, e, << >>), earlier),
                  value |-> << >>]

\* one turn of the second loop of processPatterns: the pattern string as an
\* entry of patterns
ProcessPattern ==
  /\ applied.name = "none"
  /\ applied' = [applied EXCEPT
                   !.name = "pattern",
                   !.value = PatternStep(applied.before, applied.pattern,
                                         applied.options)]
  /\ UNCHANGED << calls, processCwd >>

\* one turn of the first loop of processPatterns: the pattern string as an
\* entry of options.ignore
ProcessIgnore ==
  /\ applied.name = "none"
  /\ applied' = [applied EXCEPT
                   !.name = "ignore",
                   !.value = IgnoreStep(applied.before, applied.pattern,
                                        applied.options)]
  /\ UNCHANGED << calls, processCwd >>

PlannerNext ==
  \/ ProcessPattern
  \/ ProcessIgnore

PlannerSpec == PlannerInit /\ [][PlannerNext]_vars

\* ------------------------------------------------------------------------
\* The partial matcher of utils.ts, applied to patterns, options and an input
\* ------------------------------------------------------------------------
P_A_GS_X == << "a", "/", "*", "*", "/", "x" >>

P_A_BRACES == << "a", "/", "{", "a", "/", "x", ",", "x", "}" >>

MatcherPatternPool == {P_A_X, P_GLOBSTAR, P_A_GS_X, P_A_BRACES}

\* the names of the directories on the way of an input
SegmentPool == {DOTDOT, NAME_A, NAME_DOTA, NAME_X, << ".", ".", ".", "." >>}

\* the paths of up to MaxSegments segments
InputPaths == {Join(segs, "/") : segs \in Lists(SegmentPool, MaxSegments) \ {<< >>}}

\* PartialMatcherOptions: dot and noglobstar
PartialMatcherOptions(dot, noglobstar) == [dot |-> dot, noglobstar |-> noglobstar]

MatcherInit ==
  /\ CallsOff
  /\ \E pats \in Lists(MatcherPatternPool, MaxPatterns), input \in InputPaths,
        dot \in BOOLEAN, noglobstar \in BOOLEAN :
       applied = [name |-> "none", patterns |-> pats, input |-> input,
                  options |-> PartialMatcherOptions(dot, noglobstar), value |-> FALSE]

\* getPartialMatcher(patterns, options)(input)
GetPartialMatcher ==
  /\ applied.name = "none"
  /\ applied' = [applied EXCEPT
                   !.name = "getPartialMatcher",
                   !.value = getPartialMatcher(applied.patterns, applied.options,
                                               applied.input)]
  /\ UNCHANGED << calls, processCwd >>

MatcherNext == GetPartialMatcher

MatcherSpec == MatcherInit /\ [][MatcherNext]_vars

\* ------------------------------------------------------------------------
\* What the claims speak of
\* ------------------------------------------------------------------------
\* every entry of the file system below a directory, by its full path
RECURSIVE EntriesBelow(_)
EntriesBelow(directoryPath) ==
  LET entries == Readdir(directoryPath)
  IN UNION {{[path |-> directoryPath \o entries[k].name,
              isDirectory |-> entries[k].isDirectory]}
            \cup (IF entries[k].isDirectory
                  THEN EntriesBelow(directoryPath \o entries[k].name \o SLASH)
                  ELSE {}) : k \in 1..Len(entries)}

\* the paths of the entries as the matchers see them: relative to cwd
PathsFrom(cwd) ==
  {PosixRelative(cwd, e.path) : e \in EntriesBelow(SLASHROOT)} \ {<< >>}

\* the proper prefixes of a path, split on `/`
ProperPrefixes(p) ==
  LET segs == Split(p, "/")
  IN {Join(SubSeq(segs, 1, k), "/") : k \in 1..(Len(segs) - 1)}

Planned(c) == processed[c] # None

\* C1: whenever the full matcher accepts a path, the partial matcher built
\* from the same normalized match patterns accepts every proper prefix of
\* it, so that no directory on the way to a match is pruned.
C1_PruningIsSound ==
  \A c \in Calls : Planned(c) =>
    LET P == processed[c][1]
        mo == MatchOptions(opts[c][1])
    IN \A p \in PathsFrom(opts[c][1].cwd) :
         Picomatch(P.match, P.ignore, p, mo) =>
           \A q \in ProperPrefixes(p) : getPartialMatcher(P.match, mo, q)

\* C2: a call given patterns both as its first argument and as
\* options.patterns fails with the configuration error, and nothing is
\* normalized and no crawler is built.
C2_BothSourcesFail ==
  \A c \in Calls :
    (Started(c) /\ req[c].kind \in {"array", "string"} /\ req[c].patterns # None) =>
      /\ pc[c] = "failed"
      /\ error[c] = "Error"
      /\ processed[c] = None
      /\ crawler[c] = None

\* C3: with an empty pattern array the call returns [] and no crawler is
\* constructed or started.
C3_EmptyPatternsNoWalk ==
  \A c \in Calls : patterns[c] = Some(<< >>) =>
    /\ pc[c] = "done"
    /\ result[c] = Some(<< >>)
    /\ crawler[c] = None
    /\ ~walk[c].started

C3_Witness ==
  \E c \in Calls : patterns[c] = Some(<< >>) /\ pc[c] = "done" /\ req[c].kind = "array"

Range(f) == {f[k] : k \in 1..Len(f)}

\* a returned path as the matchers saw it: relative to cwd, and a directory
\* without its trailing slash
StripSlash(p) == IF Len(p) > 1 /\ EndsWith(p, SLASH) THEN SubSeq(p, 1, Len(p) - 1) ELSE p

AsMatched(c, p) ==
  IF opts[c][1].absolute THEN OrDot(PosixRelative(opts[c][1].cwd, StripSlash(p)))
  ELSE StripSlash(p)

\* C4: no returned path matches a normalized ignore pattern, also when it
\* matches a match pattern.
C4_IgnoredNeverReturned ==
  \A c \in Calls : (Planned(c) /\ result[c] # None) =>
    \A p \in Range(result[c][1]) :
      ~PicomatchAny(processed[c][1].ignore, AsMatched(c, p), MatchOptions(opts[c][1]))

\* a call has returned paths, and left out an entry that matches both a
\* match pattern and an ignore pattern
C4_Witness ==
  \E c \in Calls :
    /\ Planned(c) /\ result[c] # None /\ result[c][1] # << >>
    /\ \E p \in PathsFrom(opts[c][1].cwd) :
         /\ PicomatchAny(processed[c][1].match, p, MatchOptions(opts[c][1]))
         /\ PicomatchAny(processed[c][1].ignore, p, MatchOptions(opts[c][1]))

\* the pattern is negated: a leading `!` not followed by `(`
Negated(pattern) == CharAt(pattern, 0) = "!" /\ CharAt(pattern, 1) # "("

\* what the synchronous walk of a built crawler returns
ReturnedBy(built) ==
  IF built.crawler = None THEN << >>
  ELSE processResults(built.crawler[1].closure,
                      WalkSync(built.crawler[1].closure, built.crawler[1].maxDepth))

\* what a synchronous call with these options and patterns returns
Returned(options, pats) ==
  IF pats = << >> THEN << >> ELSE ReturnedBy(buildCrawler(options, pats))

\* the call c and the processed patterns `other` have the same patterns
SameLists(c, other) ==
  /\ ~other.threw
  /\ Range(other.match) = Range(processed[c][1].match)
  /\ Range(other.ignore) = Range(processed[c][1].ignore)

\* the call c does as a call with the patterns M and these options
SameAs(c, options, M) ==
  /\ SameLists(c, processPatterns(options, M))
  /\ result[c] # None => Range(Returned(options, M)) = Range(result[c][1])

\* C5: a negated pattern `!q` anywhere in the pattern list gives the same
\* match patterns, the same ignore patterns and the same returned paths as
\* the other patterns M with the ignore option set to [q].
C5_NegationIsIgnoreEntry ==
  \A c \in Calls : (Planned(c) /\ opts[c][1].ignore = << >>) =>
    \A k \in 1..Len(patterns[c][1]) :
      Negated(patterns[c][1][k]) =>
        SameAs(c, [opts[c][1] EXCEPT !.ignore = << SliceFrom(patterns[c][1][k], 1) >>],
               RemoveAt(patterns[c][1], k))

\* the pattern begins with `!!` and no `(` follows
DoublyNegated(pattern) ==
  /\ CharAt(pattern, 0) = "!"
  /\ CharAt(pattern, 1) = "!"
  /\ CharAt(pattern, 2) # "("

\* the lists of the call c are exactly those of `without`
ExactLists(c, without) ==
  /\ without.match = processed[c][1].match
  /\ without.ignore = processed[c][1].ignore

\* C6: a pattern that begins with `!!` (no `(` after it) is added to neither
\* list: the match and the ignore list are those of the call without it.
C6_DoubleNegationDropped ==
  \A c \in Calls : Planned(c) =>
    \A k \in 1..Len(patterns[c][1]) :
      DoublyNegated(patterns[c][1][k]) =>
        ExactLists(c, processPatterns(opts[c][1], RemoveAt(patterns[c][1], k)))

C6_Witness ==
  \E c \in Calls :
    /\ Planned(c) /\ pc[c] = "done"
    /\ \E k \in 1..Len(patterns[c][1]) : DoublyNegated(patterns[c][1][k])
    /\ processed[c][1].match # << >>

\* the match list of the call c has one pattern more than `without`
OneMoreMatch(c, without) ==
  /\ Len(processed[c][1].match) = Len(without.match) + 1
  /\ without.ignore = processed[c][1].ignore

\* C6 as stated: a pattern that begins with `!!` is added to the match list
\* as a literal pattern and adds nothing to the ignore list.
C6_DoubleNegationIsLiteral ==
  \A c \in Calls : Planned(c) =>
    \A k \in 1..Len(patterns[c][1]) :
      DoublyNegated(patterns[c][1][k]) =>
        OneMoreMatch(c, processPatterns(opts[c][1], RemoveAt(patterns[c][1], k)))

\* the number of leading `..` segments of a normalized pattern
RECURSIVE LeadingParents(_)
LeadingParents(segs) ==
  IF segs # << >> /\ Head(segs) = DOTDOT THEN 1 + LeadingParents(Tail(segs)) ELSE 0

\* the largest number of levels a normalized pattern of the call climbs
Climb(c) ==
  LET all == processed[c][1].match \o processed[c][1].ignore
      climbs == {LeadingParents(Split(all[k], "/")) : k \in 1..Len(all)} \cup {0}
  IN CHOOSE m \in climbs : \A o \in climbs : o <= m

\* the ancestor of a directory k levels up
RECURSIVE Up(_, _)
Up(path, k) == IF k = 0 THEN path ELSE Up(PosixJoin(path, DOTDOT), k - 1)

WithinOrSelf(path, dir) == path = dir \/ StartsWith(path, dir \o SLASH)

\* C7: if no normalized pattern begins with a `..` segment, root is cwd or
\* below it and depthOffset >= 0; otherwise root is the ancestor of cwd at
\* the largest number of levels a pattern climbs, and depthOffset is the
\* negative of that number.  Stated for the patterns that do not climb
\* above the root of the file system, where cwd has such an ancestor.
C7_RootInference ==
  \A c \in Calls : (Planned(c) /\ Climb(c) <= Len(ResolveSegs(opts[c][1].cwd))) =>
    LET P == processed[c][1].props
        cwd == opts[c][1].cwd
    IN IF Climb(c) = 0
       THEN WithinOrSelf(P.root, cwd) /\ P.depthOffset >= 0
       ELSE P.root = Up(cwd, Climb(c)) /\ P.depthOffset = 0 - Climb(c)

\* the leading segments a pattern can share: not its last segment, nor the
\* segment before a trailing bare `**`
Shareable(segs) ==
  IF segs # << >> /\ segs[Len(segs)] = GLOBSTAR
  THEN Max(Len(segs) - 2, 0) ELSE Max(Len(segs) - 1, 0)

\* the longest run of leading literal segments all the match patterns share
CommonPrefix(match) ==
  LET segs == [k \in 1..Len(match) |-> Split(match[k], "/")]
      Shared(j) == \A k \in 1..Len(match) :
                      /\ j <= Shareable(segs[k])
                      /\ \A i \in 1..j : /\ segs[k][i] = segs[1][i]
                                         /\ ~isDynamicPattern(segs[k][i])
      runs == {j \in 0..Shareable(segs[1]) : Shared(j)}
  IN IF match = << >> THEN << >>
     ELSE SubSeq(segs[1], 1, CHOOSE j \in runs : \A o \in runs : o <= j)

\* no normalized pattern of the call begins with two dots
NoLeadingDots(c) ==
  LET all == processed[c][1].match \o processed[c][1].ignore
  IN \A k \in 1..Len(all) : ~StartsWith(all[k], DOTDOT)

\* C8: when no pattern has a leading `../`, root is cwd joined with the
\* longest run of leading literal segments shared by every match pattern,
\* and depthOffset is the number of those segments.
C8_CommonPrefixInference ==
  \A c \in Calls : (Planned(c) /\ NoLeadingDots(c)) =>
    LET P == processed[c][1].props
        common == CommonPrefix(processed[c][1].match)
    IN /\ P.root = (IF common = << >> THEN opts[c][1].cwd
                    ELSE PosixJoin(opts[c][1].cwd, Join(common, "/")))
       /\ P.depthOffset = Len(common)

\* C9: when deep is given, 0 included, maxDepth is deep - depthOffset rounded
\* to the nearest integer, so that maxDepth + depthOffset = deep for a whole
\* deep; when deep is not given no maxDepth is set.  deep is in halves.
C9_DepthTranslation ==
  \A c \in Calls : crawler[c] # None =>
    LET deep == opts[c][1].deep
        off == processed[c][1].props.depthOffset
        maxDepth == crawler[c][1].maxDepth
    IN IF deep = None THEN maxDepth = None
       ELSE /\ maxDepth # None
            /\ 2 * maxDepth[1] - 1 <= deep[1] - 2 * off
            /\ deep[1] - 2 * off <= 2 * maxDepth[1]
            /\ deep[1] % 2 = 0 => 2 * (maxDepth[1] + off) = deep[1]

\* deep = 0 was given for a root above cwd, and the call has returned
C9_Witness ==
  \E c \in Calls :
    /\ crawler[c] # None /\ pc[c] = "done"
    /\ opts[c][1].deep = Some(0)
    /\ processed[c][1].props.depthOffset < 0
    /\ crawler[c][1].maxDepth = Some(1)

\* the directories of the file system, by their full paths
Directories ==
  {SLASHROOT} \cup {e.path : e \in {d \in EntriesBelow(SLASHROOT) : d.isDirectory}}

\* where a path is, read from the directory `from`
Located(from, p) ==
  IF IsAbsolute(p) THEN resolve(p) ELSE resolve(from \o SLASH \o p)

\* the path names a directory
IsDirectoryPath(from, p) == Located(from, p) \in Directories

\* C10: with onlyDirectories the walker excludes files and includes
\* directories whatever onlyFiles is, and no file is returned; with neither
\* option given no directory is included.
C10_OnlyDirectoriesFirst ==
  \A c \in Calls : crawler[c] # None =>
    LET K == crawler[c][1].closure
        given == req[c].options
    IN /\ given.onlyDirectories =>
            /\ K.excludeFiles /\ K.includeDirs
            /\ \A p \in Range(walk[c].paths) : IsDirectoryPath(K.root, p)
            /\ result[c] # None =>
                 \A p \in Range(result[c][1]) : IsDirectoryPath(K.cwd, p)
       /\ (~given.onlyDirectories /\ given.onlyFiles = None) =>
            /\ ~K.includeDirs
            /\ result[c] # None =>
                 \A p \in Range(result[c][1]) : ~IsDirectoryPath(K.cwd, p)

\* a call with onlyDirectories and onlyFiles both true has returned directories
C10_Witness ==
  \E c \in Calls :
    /\ crawler[c] # None /\ result[c] # None /\ result[c][1] # << >>
    /\ req[c].options.onlyDirectories
    /\ req[c].options.onlyFiles = Some(TRUE)

\* a call in relative mode has returned
ReturnedRelative(c) == result[c] # None /\ opts[c] # None /\ ~opts[c][1].absolute

\* C11: in relative mode every directory in the result ends in `/`, also
\* when the results were remapped because root is not cwd, except the
\* working directory itself, which is returned as the bare `.`.
C11_DirectoriesCarrySlash ==
  \A c \in Calls : ReturnedRelative(c) =>
    \A p \in Range(result[c][1]) :
      IsDirectoryPath(opts[c][1].cwd, p) =>
        IF Located(opts[c][1].cwd, p) = opts[c][1].cwd THEN p = DOT
        ELSE EndsWith(p, SLASH)

Claimant(matcher, file) ==
  IF \E k \in 1..Len(matcher) : Matches(matcher[k], file)
  THEN CHOOSE k \in 1..Len(matcher) :
         /\ Matches(matcher[k], file)
         /\ \A j \in 1..(k - 1) : ~Matches(matcher[j], file)
  ELSE 0

\* where a file is first met in the input
FirstIndex(files, file) ==
  CHOOSE i \in 1..Len(files) : files[i] = file /\ \A j \in 1..(i - 1) : files[j] # file

\* a comes before b inside one group
InGroupOrder(sort, files, a, b) ==
  CASE sort = "pattern" -> FirstIndex(files, a) < FirstIndex(files, b)
    [] sort = "pattern-asc" -> localeCompare(a, b) < 0
    [] sort = "pattern-desc" -> localeCompare(a, b) > 0

\* out lists the claimed files of `files` once each, group after group in
\* the order of the pairs, each group in its order
PrecedenceSorted(out, files, matcher, sort) ==
  /\ Range(out) = {file \in Range(files) : Claimant(matcher, file) # 0}
  /\ \A i \in 1..Len(out) : \A j \in (i + 1)..Len(out) :
       /\ out[i] # out[j]
       /\ Claimant(matcher, out[i]) <= Claimant(matcher, out[j])
       /\ Claimant(matcher, out[i]) = Claimant(matcher, out[j]) =>
            InGroupOrder(sort, files, out[i], out[j])

SortedByPattern ==
  /\ applied.name = "sortFilesByPatternPrecedence"
  /\ applied.options.sort # None
  /\ applied.options.sort[1] \in PatternSorts

\* C13: in the sort modes pattern, pattern-asc and pattern-desc each path is
\* claimed by the first pattern, in declared order, whose matcher accepts it;
\* the output lists the groups in pattern order, and inside a group the
\* paths keep their input order (pattern) or are sorted ascending or
\* descending (pattern-asc, pattern-desc).
C13_PrecedenceSort ==
  SortedByPattern =>
    PrecedenceSorted(applied.value, applied.files,
                     compileMatchers(applied.patterns, applied.options),
                     applied.options.sort[1])

\* files that two patterns match were sorted into an order other than the
\* order they came in
C13_Witness ==
  /\ SortedByPattern
  /\ applied.patterns = << P_B_X, P_GLOBSTAR >>
  /\ applied.files = << P_A_X, P_DOTA_X, P_B_X >>
  /\ applied.value = << P_B_X, P_A_X >>

\* a pattern that is neither empty nor negated
Positive(pattern) == pattern # << >> /\ NotNegated(pattern)

\* what normalizePattern returns for a pattern
Normalized(pattern, options) ==
  normalizePattern(pattern, options, InitialProps(options.cwd), FALSE).result

\* the matcher of a pair accepts what its glob alone accepts, the ignored
\* paths aside
MatchesItsGlob(m, file) ==
  Matches(m, file) <=>
    /\ PicomatchOne(m.glob, buildFormat(m.cwd, m.root, m.absolute, file, FALSE),
                    m.matchOptions)
    /\ ~PicomatchAny(m.ignore, buildFormat(m.cwd, m.root, m.absolute, file, FALSE),
                     m.matchOptions)

\* the pairs are those of the patterns `declared`, in their order
PairsOf(pairs, declared, options) ==
  /\ Len(pairs) = Len(declared)
  /\ \A k \in 1..Len(pairs) :
       k <= Len(declared) =>
         /\ pairs[k].glob = Normalized(declared[k], options)
         /\ \A file \in FilePool : MatchesItsGlob(pairs[k], file)

C15_OmittedCwdIsProcessCwd ==
  \A c \in Calls : (Started(c) /\ req[c].options.cwd = None /\ opts[c] # None) =>
    opts[c][1].cwd = processCwd

\* the paths are all different
NoRepeats(paths) == Cardinality(Range(paths)) = Len(paths)

\* the call c stands as `alone`, what getCrawler gives for its arguments
\* with no other call around, lets it stand: the same options, patterns,
\* props and crawler, no path found that the walk alone does not find, and
\* in the end the paths of the walk alone
AsAlone(c, alone) ==
  /\ error[c] = alone.error
  /\ opts[c] = alone.opts
  /\ patterns[c] = alone.patterns
  /\ processed[c] = alone.processed
  /\ crawler[c] = alone.crawler
  /\ Range(processResults(ClosureOf(c), walk[c].paths)) \subseteq Range(ReturnedBy(alone))
  /\ result[c] # None =>
       /\ Range(result[c][1]) = Range(ReturnedBy(alone))
       /\ NoRepeats(result[c][1])

\* both calls have been made
BothMade == \A c \in Calls : Started(c)

\* C16: two calls in flight at the same time each find and return what they
\* return when run alone, whatever the interleaving of their walks; the
\* options, patterns, root, depthOffset, commonPath and matchers of a call
\* are those of its own arguments.
C16_CallsDoNotInterfere ==
  \A c \in Calls : (BothMade /\ crawler[c] # None) => AsAlone(c, getCrawler(req[c]))

\* two calls with different arguments are walking and each has found paths
C16_Witness ==
  /\ \A c \in Calls : pc[c] = "walking" /\ walk[c].paths # << >> /\ walk[c].queue # << >>
  /\ req[1].options.cwd # req[2].options.cwd
  /\ req[1].value # req[2].value

\* C17: the planner never throws on a pattern: processing any pattern
\* string, as a pattern or as an ignore entry, completes without an
\* exception.
C17_PlannerNeverThrows ==
  applied.name \in {"pattern", "ignore"} => ~applied.value.threw

\* the partial matcher has been applied
Partial == applied.name = "getPartialMatcher"

\* the segments of the input the partial matcher was applied to
InputSegments == Split(applied.input, "/")

\* the input is made only of `..` segments
OnlyParents(segs) == \A k \in 1..Len(segs) : segs[k] = DOTDOT

\* the pattern segment at index j is matched by the input segment at index j
MatchesAt(parts, segs, j, options) == PicomatchOne(parts[j + 1], segs[j + 1], options)

\* the walk of the segments of one pattern reaches index j: the input and the
\* pattern have a segment there, and every segment before it is free of
\* slashes, matches, and is no globstar that ends the walk
Reaches(parts, segs, j, options) ==
  /\ j < Min(Len(parts), Len(segs))
  /\ \A k \in 0..(j - 1) :
       /\ ~Includes(parts[k + 1], "/")
       /\ MatchesAt(parts, segs, k, options)
       /\ options.noglobstar \/ parts[k + 1] # GLOBSTAR

\* the walk of some pattern reaches a segment that contains a slash
ReachesSlash(pats, segs, options) ==
  \E i \in 1..Len(pats) : \E j \in 0..(Len(segs) - 1) :
    /\ Reaches(splitPattern(pats[i]), segs, j, options)
    /\ Includes(splitPattern(pats[i])[j + 1], "/")

\* C18: the partial matcher returns true for every input made only of `..`
\* segments, whatever the patterns are, and as soon as the walk of a
\* pattern reaches a pattern segment that contains `/`, whatever the input
\* segments from there on are.
C18_OverApproximation ==
  Partial =>
    /\ OnlyParents(InputSegments) => applied.value
    /\ ReachesSlash(applied.patterns, InputSegments, applied.options) => applied.value

\* a segment with a slash was reached by an input that goes on with names
\* the braces do not hold, and the input was accepted
C18_Witness ==
  /\ Partial
  /\ applied.patterns = << P_A_BRACES >>
  /\ applied.input = Join(<< NAME_A, NAME_DOTA, NAME_DOTA >>, "/")
  /\ applied.value

\* the walk of the segments of one pattern reaches a `**` segment at index j
ReachesGlobstar(parts, segs, j, options) ==
  /\ Reaches(parts, segs, j, options)
  /\ parts[j + 1] = GLOBSTAR

\* the walk of some pattern reaches a `**` that matches the input segment
GlobstarMatches(pats, segs, options) ==
  \E i \in 1..Len(pats) : \E j \in 0..(Len(segs) - 1) :
    /\ ReachesGlobstar(splitPattern(pats[i]), segs, j, options)
    /\ MatchesAt(splitPattern(pats[i]), segs, j, options)

\* the walk of the pattern reaches a `**` that does not match the input segment
GlobstarFails(pattern, segs, options) ==
  \E j \in 0..(Len(segs) - 1) :
    /\ ReachesGlobstar(splitPattern(pattern), segs, j, options)
    /\ ~MatchesAt(splitPattern(pattern), segs, j, options)

\* the segment with `*` for `**`
StarForGlobstar(part) == IF part = GLOBSTAR THEN << "*" >> ELSE part

\* the patterns with each `**` segment replaced by `*`
SingleStars(pats) ==
  [i \in 1..Len(pats) |->
     Join([k \in 1..Len(splitPattern(pats[i])) |->
             StarForGlobstar(splitPattern(pats[i])[k])], "/")]

PlainSegments(pats) ==
  \A i \in 1..Len(pats) : \A k \in 1..Len(splitPattern(pats[i])) :
    /\ ~Includes(splitPattern(pats[i])[k], "/")
    /\ splitPattern(pats[i])[k] # GLOBSTAR

\* the pattern has at least as many segments as the input and every input
\* segment matches the segment of the pattern at the same position
CoveredBy(parts, segs, options) ==
  /\ Len(parts) >= Len(segs)
  /\ \A j \in 0..(Len(segs) - 1) : MatchesAt(parts, segs, j, options)

\* C20: for patterns whose segments contain no `/` and no `**`, the partial
\* matcher accepts an input if and only if the input is made only of `..`
\* segments or some pattern has at least as many segments as the input and
\* every input segment matches that pattern's segment at the same position.
C20_PartialMatcherIsPrecise ==
  (Partial /\ PlainSegments(applied.patterns)) =>
    (applied.value <=>
       \/ OnlyParents(InputSegments)
       \/ \E i \in 1..Len(applied.patterns) :
            CoveredBy(splitPattern(applied.patterns[i]), InputSegments, applied.options))

\* the planner has processed the pattern string and did not throw
DidNotThrow == applied.name \in {"pattern", "ignore"} /\ ~applied.value.threw

\* the pattern string was normalized as an ignore pattern: it came from the
\* ignore option or it was a negated pattern
AsIgnore == DidNotThrow /\ Len(applied.value.ignore) = Len(applied.before.ignore) + 1

\* the pattern string was normalized as a match pattern
AsMatch == DidNotThrow /\ Len(applied.value.match) = Len(applied.before.match) + 1

\* dir is the directory path or one of its ancestors
AtOrAbove(dir, path) == dir = path \/ dir = SLASHROOT \/ StartsWith(path, dir \o SLASH)

\* C21: normalizing an ignore pattern, from the ignore option or from a
\* negated pattern, leaves commonPath as it was, and root where it was or
\* at a directory above it, never at a deeper one.
C21_IgnoreKeepsCommonPath ==
  AsIgnore =>
    /\ applied.value.props.commonPath = applied.before.props.commonPath
    /\ AtOrAbove(applied.value.props.root, applied.before.props.root)

\* a negated pattern was normalized after a match pattern had set commonPath
C21_Witness ==
  /\ AsIgnore
  /\ applied.name = "pattern"
  /\ applied.before.match = << P_A_X >>
  /\ applied.before.props.commonPath # << >>
  /\ applied.pattern = << "!", "a" >>

\* C22: once root is above cwd (depthOffset < 0), a later pattern leaves
\* depthOffset negative and root where it is, or moves root to a directory
\* above it with a depthOffset that is more negative.
C22_RootOnlyMovesUp ==
  (DidNotThrow /\ applied.before.props.depthOffset < 0) =>
    /\ applied.value.props.depthOffset < 0
    /\ AtOrAbove(applied.value.props.root, applied.before.props.root)
    /\ IF applied.value.props.root = applied.before.props.root
       THEN applied.value.props.depthOffset = applied.before.props.depthOffset
       ELSE applied.value.props.depthOffset < applied.before.props.depthOffset

\* with root one level above cwd, a pattern without `..` was normalized and
\* left root and depthOffset there
C22_Witness ==
  /\ AsMatch
  /\ applied.before.props.depthOffset = -1
  /\ applied.pattern = << "a" >>
  /\ applied.value.props = applied.before.props

\* a step leaves the crawl state of a call whose walker has started as it
\* is, and the walker that is started reads the root and the depthOffset
\* the normalization of the patterns ended with
CrawlStateFrozen(c) ==
  /\ walk[c].started =>
       /\ opts'[c] = opts[c]
       /\ patterns'[c] = patterns[c]
       /\ processed'[c] = processed[c]
       /\ crawler'[c] = crawler[c]
  /\ walk'[c].started =>
       /\ crawler'[c][1].closure.root = processed'[c][1].props.root
       /\ crawler'[c][1].maxDepth
            = MaxDepthOf(opts'[c][1], processed'[c][1].props.depthOffset)

\* C23: root, depthOffset and commonPath are written while the patterns are
\* normalized, before the walker is started; the walker reads what the
\* normalization ended with, and no step of the walk, synchronous or
\* asynchronous, changes them.
C23_FrozenBeforeWalk == [][\A c \in Calls : CrawlStateFrozen(c)]_vars

\* an asynchronous walk is under way from a root that normalization moved
\* off cwd: paths are found and directory reads are pending
C23_Witness ==
  \E c \in Calls :
    /\ pc[c] = "walking"
    /\ walk[c].paths # << >>
    /\ walk[c].queue # << >>
    /\ processed[c][1].props.root # opts[c][1].cwd

\* normalizing gave the string it was given
Unchanged(normalized, pattern) == ~normalized.threw /\ normalized.result = pattern

\* the normalized string, normalized again with the same cwd and options,
\* is the same string
NormalizedAgain(pattern, isIgnore) ==
  Unchanged(normalizePattern(pattern, applied.options, applied.before.props, isIgnore),
            pattern)

\* C24: normalizing an already-normalized pattern, with the same cwd and
\* options, yields the same normalized string again.
C24_NormalizationIsIdempotent ==
  /\ AsMatch => NormalizedAgain(applied.value.match[Len(applied.value.match)], FALSE)
  /\ AsIgnore => NormalizedAgain(applied.value.ignore[Len(applied.value.ignore)], TRUE)

\* ------------------------------------------------------------------------
\* escapePath and buildFormat of utils.ts, applied to a string and to the
\* entries a walk meets
\* ------------------------------------------------------------------------
\* the characters a path to escape is made of
PathChars == {BACKSLASH, "(", "!", "+", "a"}

FormatCwds == {SLASHROOT, CWD_R, CWD_R_A}

\* the root of the walk and what the walk meets: the root and all below it
WalkEntriesOf(root) ==
  {[path |-> root, isDirectory |-> TRUE]} \cup EntriesBelow(FdirRoot(root))

\* the path fdir hands to the filters for an entry: a directory ends in the
\* separator; the path is absolute, or relative to the root and `.` for it
WalkerPath(root, absolute, entry) ==
  IF absolute
  THEN IF entry.isDirectory THEN FdirRoot(entry.path) ELSE entry.path
  ELSE OrDot(SliceFrom(IF entry.isDirectory THEN FdirRoot(entry.path) ELSE entry.path,
                       Len(FdirRoot(root))))

UtilsInit ==
  /\ CallsOff
  /\ \/ \E path \in Lists(PathChars, MaxChars) :
          applied = [name |-> "none", of |-> "path", path |-> path, value |-> << >>]
     \/ \E cwd \in FormatCwds, root \in Directories, absolute \in BOOLEAN :
          \E entry \in WalkEntriesOf(root) :
            /\ AtOrAbove(cwd, root)
            /\ applied = [name |-> "none", of |-> "entry", cwd |-> cwd, root |-> root,
                          absolute |-> absolute, entry |-> entry, value |-> << >>]

\* escapePath(path)
EscapePath ==
  /\ applied.name = "none"
  /\ applied.of = "path"
  /\ applied' = [applied EXCEPT !.name = "escapePath",
                                !.value = escapePosixPath(applied.path)]
  /\ UNCHANGED << calls, processCwd >>

\* buildFormat(cwd, root, absolute)(p, isDir) for the path of the entry
BuildFormat ==
  /\ applied.name = "none"
  /\ applied.of = "entry"
  /\ applied' = [applied EXCEPT
                   !.name = "buildFormat",
                   !.value = buildFormat(applied.cwd, applied.root, applied.absolute,
                                         WalkerPath(applied.root, applied.absolute,
                                                    applied.entry),
                                         applied.entry.isDirectory)]
  /\ UNCHANGED << calls, processCwd >>

UtilsNext ==
  \/ EscapePath
  \/ BuildFormat

UtilsSpec == UtilsInit /\ [][UtilsNext]_vars

\* C25: escapePath applied to its own output returns that output unchanged,
\* for every input string.
C25_EscapeIsIdempotent ==
  applied.name = "escapePath" => escapePosixPath(applied.value) = applied.value

\* C28: whenever root is cwd or below it, buildFormat returns for every path
\* of the walker, of a file or of a directory, relative or absolute, the
\* string posix.relative(cwd, absolute path of the entry) || '.'.
C28_FormatAgreesWithRelative ==
  applied.name = "buildFormat" =>
    applied.value = OrDot(PosixRelative(applied.cwd, applied.entry.path))

\* a file below a root that lies below cwd was formatted in relative mode,
\* through the branch with a prefix
C28_Witness ==
  /\ applied.name = "buildFormat"
  /\ applied.cwd = CWD_R
  /\ applied.root = CWD_R_A
  /\ ~applied.absolute
  /\ applied.entry.path = CWD_R_A \o SLASH \o NAME_X
  /\ applied.value = NAME_A \o SLASH \o NAME_X

\* the ignore matcher of the call accepts the cwd-relative path of the directory
IgnoredDirectory(c, directory) ==
  PicomatchAny(processed[c][1].ignore,
               OrDot(PosixRelative(opts[c][1].cwd, directory)), MatchOptions(opts[c][1]))

\* no returned path of the call is the directory or an entry beneath it
NothingBeneath(c, directory) ==
  \A p \in Range(result[c][1]) :
    ~AtOrAbove(directory, Located(opts[c][1].cwd, p))

\* the directory lies below the root of the crawl of the call
BelowRoot(c, directory) ==
  /\ directory # processed[c][1].props.root
  /\ AtOrAbove(processed[c][1].props.root, directory)

Count(files, file) == Cardinality({i \in 1..Len(files) : files[i] = file})

\* the two lists hold the same paths, each as often
SameMultiset(a, b) ==
  \A file \in Range(a) \cup Range(b) : Count(a, file) = Count(b, file)

\* the call asked for sorted results and has returned
ReturnedSorted(c) == Planned(c) /\ result[c] # None /\ opts[c][1].sort # None

\* C27: a call with a sort mode returns the same paths, each as often, as
\* the call with the same patterns and options and no sort mode; the sorter
\* drops and repeats nothing, in relative and in absolute mode, with the
\* root at, below or above cwd.
C27_SortOnlyReorders ==
  \A c \in Calls : ReturnedSorted(c) =>
    SameMultiset(result[c][1],
                 Returned([opts[c][1] EXCEPT !.sort = None], patterns[c][1]))

\* the same, for the calls whose root is not above cwd or that are absolute
SortKeepsAtOrBelowCwd ==
  \A c \in Calls :
    (ReturnedSorted(c)
       /\ (opts[c][1].absolute \/ AtOrAbove(opts[c][1].cwd, processed[c][1].props.root))) =>
      SameMultiset(result[c][1],
                   Returned([opts[c][1] EXCEPT !.sort = None], patterns[c][1]))

\* the first k segments of the input, joined again
InputPrefix(k) == Join(SubSeq(InputSegments, 1, k), "/")

\* C29: the paths the partial matcher accepts are prefix-closed: when it
\* accepts an input it accepts every non-empty proper prefix of the input,
\* taken segment by segment.
C29_AcceptedPathsArePrefixClosed ==
  (Partial /\ applied.value) =>
    \A k \in 1..(Len(InputSegments) - 1) :
      getPartialMatcher(applied.patterns, applied.options, InputPrefix(k))

\* C29 happens: with noglobstar `a/**/x` accepts `a/a/x` segment by segment,
\* and `a` and `a/a` are its proper prefixes
C29_Witness ==
  /\ Partial
  /\ applied.patterns = << P_A_GS_X >>
  /\ applied.options.noglobstar
  /\ applied.input = Join(<< NAME_A, NAME_A, NAME_X >>, "/")
  /\ applied.value

\* the first segment of the pattern begins with two dots and is longer
BeginsWithTwoDots(pattern) ==
  /\ Len(pattern) >= 3
  /\ SubSeq(pattern, 1, 2) = DOTDOT
  /\ pattern[3] # "/"

\* the normalized patterns the step pushed to: match or ignore
PushedTo == IF applied.name = "pattern" THEN applied.value.match ELSE applied.value.ignore

\* C30: only leading segments that are exactly `..` are parent references.
\* A pattern whose first segment begins with two dots and is longer, given
\* while root is at cwd, is normalized without an error, leaves depthOffset
\* at zero or more and root at cwd or below it, and its text is the one
\* posix.normalize gave, not rewritten by the `../<name>` collapse.
C30_OnlyExactParentSegments ==
  (applied.name \in {"pattern", "ignore"}
     /\ BeginsWithTwoDots(applied.pattern)
     /\ applied.before.props.depthOffset >= 0) =>
    /\ ~applied.value.threw
    /\ applied.value.props.depthOffset >= 0
    /\ AtOrAbove(applied.options.cwd, applied.value.props.root)
    /\ PushedTo # << >>
    /\ PushedTo[Len(PushedTo)] =
         Resolved(Expanded(Stripped(applied.pattern), applied.options),
                  applied.options.cwd)

=============================================================================
